---- MODULE Spec2Model ----
(***************************************************************************)
(* Kabo: the round engine (Round, Player, Card, Deck, DiscardPile) and the *)
(* match loop (Game) of the repository, as a state machine.                *)
(*                                                                         *)
(* Cards are the indices 1..Len(value) of the list of Card objects handed  *)
(* to the Round; None is 0.  Python lists are sequences whose last element *)
(* is the one list.pop() removes.  Positions chosen by a player are the    *)
(* 0-based positions of the program.                                       *)
(***************************************************************************)
EXTENDS Integers, Sequences, FiniteSets, TLC

VARIABLES
    numPlayers,              \* Game.num_players
    players_game_score,      \* Player.players_game_score
    matched_100,             \* Player.matched_100
    called_kabo,             \* Player.called_kabo
    hand,                    \* Player.hand
    start_player_index,      \* Game._start_player_index
    rounds,                  \* len(Game.rounds)
    players,                 \* Round.players (the rotated list)
    kabo_called,             \* Round.kabo_called
    main_deck,               \* Round.main_deck.cards
    discard_pile,            \* Round.discard_pile.cards
    round_scores,            \* Round.round_scores
    kabo_counter,            \* _kabo_counter of Round.start_playing
    kabo_active,             \* _kabo_active of Round.start_playing
    players_cycle,           \* position of _players_cycle in Round.players
    peeker,                  \* loop position of Round._let_players_see_cards
    value,                   \* Card.value
    publicly_visible,        \* Card.publicly_visible
    known_to_owner,          \* Card.known_to_owner
    known_to_other_players,  \* Card.known_to_other_players
    status,                  \* Card.status
    owner,                   \* Card.owner
    pc,                      \* where the game thread is
    err,                     \* the exception that ended the game thread
    last,                    \* what the last step did
    turns,                   \* turns taken so far
    since_kabo,              \* history: turns completed in this round after
                             \* the turn that called Kabo, -1 before the call
    knew,                    \* history: <<p, c>> when p has held card c in
                             \* the hand while c was known to its owner
    web,                     \* the players that are WebPlayers
    summary,                 \* Game._show_round_end_to_players: where it is
    joining,                 \* the player whose thread t.join waits for
    join_started,            \* clock when that join began
    confirm,                 \* the wait_for_round_end_confirmation threads
    request,                 \* the input request a player's UI shows
    response_queue,          \* WebPlayer._response_queue
    peek_wait,               \* WebPlayer.pick_cards_to_see of this round:
                             \* "none", "blocked" in _wait_for_response,
                             \* or "returned"
    clock,                   \* seconds since the confirmation threads began
    room_state,              \* GameRoom.state, "none" before create_room
    max_players,             \* GameRoom.max_players
    room_players,            \* the keys of GameRoom.players, in dict order
    join_error,              \* what the last call on the GameRoom raised
    client_names,            \* Server.client_names
    clients,                 \* the Server.threaded_client threads
    ai_count,                \* GameRoom.ai_count
    web_player,              \* the keys of GameRoom.players whose entry has
                             \* a "web_player" that is not None
    starters,                \* the calls of GameRoom.start_game
    session,                 \* the game threads started: the players list
                             \* each Game was constructed with
    connected,               \* what connect_to_room_game left in
                             \* WebApp.web_player of a polling client
    roster_at_start          \* history: the keys of GameRoom.players when
                             \* the state left "waiting"

vars == <<numPlayers, players_game_score, matched_100, called_kabo, hand,
          start_player_index, rounds, players, kabo_called, main_deck,
          discard_pile, round_scores, kabo_counter, kabo_active,
          players_cycle, peeker, value, publicly_visible, known_to_owner,
          known_to_other_players, status, owner, pc, err, last, turns,
          since_kabo, knew, web, summary, joining, join_started, confirm,
          request, response_queue, peek_wait, clock, room_state,
          max_players, room_players, join_error, client_names, clients,
          ai_count, web_player, starters, session, connected,
          roster_at_start>>

startVars == <<ai_count, web_player, starters, session, connected,
               roster_at_start>>

roomVars == <<room_state, max_players, room_players, join_error,
              client_names, clients, startVars>>

webVars == <<web, summary, joining, join_started, confirm, request,
             response_queue, peek_wait, clock, roomVars>>

gameVars == <<numPlayers, players_game_score, matched_100,
              start_player_index, rounds>>
cardVars == <<value, publicly_visible, known_to_owner,
              known_to_other_players, status, owner>>
loopVars == <<kabo_called, kabo_counter, kabo_active, players_cycle>>

-----------------------------------------------------------------------------
(* Bounds *)

MaxTurns == 2       \* turns followed in a match
MaxRoundTurns == 3  \* turns followed in a round constructed on its own
MaxRounds == 2      \* rounds started in one run
MaxPos == 2         \* peek, spy and swap choose among this many positions
MaxSel == 3         \* at most this many cards are selected for exchange

-----------------------------------------------------------------------------
(* config/rules.py *)

TARGET_POINT_VALUE == 100
POINT_VALUE_AFTER_HITTING_TARGET == 50
ALLOWED_PLAYER_COUNTS == {2, 3, 4}
CARD_AMOUNTS == [v \in 0..13 |-> IF v \in {0, 13} THEN 2 ELSE 4]
NUMBER_OF_CARDS_TO_SEE == 2
CARDS_PER_PLAYER == 4
CARD_EFFECTS ==
    [v \in 0..13 |-> CASE v \in {7, 8} -> "KUK"
                       [] v \in {9, 10} -> "SPION"
                       [] v \in {11, 12} -> "KSEFT"
                       [] OTHER -> "None"]
KABO_MALUS == 10
ALLOWED_PLAYS == {"KABO", "HIT_DECK", "HIT_DISCARD_PILE"}
NUMBER_OF_CARDS_FOR_KAMIKADZE == {4}
KAMIKADZE_VALUES == [v \in {12, 13} |-> 2]
KAMIKADZE_PENALTY == 50
NUM_KINDS_FOR_MULTIPLE_DISCARD == 1
MAIN_DECK_CARD_DECISIONS == {"KEEP", "DISCARD", "EFFECT"}

None == 0

-----------------------------------------------------------------------------
(* Sequences *)

RECURSIVE SumSeq(_)
SumSeq(s) == IF s = <<>> THEN 0 ELSE Head(s) + SumSeq(Tail(s))

RECURSIVE Reverse(_)
Reverse(s) == IF s = <<>> THEN <<>> ELSE Append(Reverse(Tail(s)), Head(s))

Range(s) == {s[i] : i \in DOMAIN s}

Top(s) == s[Len(s)]                     \* s[-1]
Pop(s) == SubSeq(s, 1, Len(s) - 1)      \* what s.pop() leaves

\* the first 1-based index of x in s, 0 when x is not in s
IndexOf(s, x) ==
    IF \E i \in DOMAIN s : s[i] = x
    THEN CHOOSE i \in DOMAIN s : s[i] = x /\ \A j \in 1..(i - 1) : s[j] # x
    ELSE 0

\* [c for c in hand if c]
FilterNones(h) == SelectSeq(h, LAMBDA c : c # None)

Count(s, x) == Cardinality({i \in DOMAIN s : s[i] = x})

-----------------------------------------------------------------------------
(* Game._init_round: the list of Card objects, in CARD_AMOUNTS order *)

RECURSIVE CardsFrom(_)
CardsFrom(v) ==
    IF v > 13 THEN <<>>
    ELSE [i \in 1..CARD_AMOUNTS[v] |-> v] \o CardsFrom(v + 1)

CARDS == CardsFrom(0)

\* Deck.shuffle leaves any permutation.  Stack(order, n) is the permutation
\* of the cards 1..n whose pops give `order` first and then the remaining
\* cards, highest index first.
Stack(order, n) ==
    LET rest == SelectSeq([i \in 1..n |-> i], LAMBDA c : c \notin Range(order))
    IN  rest \o Reverse(order)

-----------------------------------------------------------------------------
(* Round.__init__ *)

\* players[start_player_index:] + players[:start_player_index]
RotatedPlayers(n, start) ==
    [i \in 1..n |-> ((start + i - 1) % n) + 1]

\* DealtHand dealing one card too few
DealtHandShort(deck, i) ==
    [j \in 1..(CARDS_PER_PLAYER - 1) |->
        deck[Len(deck) - CARDS_PER_PLAYER * (i - 1) - (j - 1)]]

\* Round._deal_cards_to_players: the hand of the i-th player of the round,
\* CARDS_PER_PLAYER pops appended one after the other
DealtHand(deck, i) ==
    [j \in 1..CARDS_PER_PLAYER |->
        deck[Len(deck) - CARDS_PER_PLAYER * (i - 1) - (j - 1)]]

DeckAfterDeal(deck, n) == SubSeq(deck, 1, Len(deck) - CARDS_PER_PLAYER * n)

\* The round built from the card values vals, shuffled into deck0, for n
\* players of whom the one at roster position start + 1 begins.
NewRound(n, vals, deck0, start) ==
    LET plist == RotatedPlayers(n, start)
        dealt == [p \in 1..n |-> DealtHand(deck0, IndexOf(plist, p))]
        deck1 == DeckAfterDeal(deck0, n)
        first == Top(deck1)                  \* _first_discarded_card
        inHand == UNION {Range(dealt[p]) : p \in 1..n}
    IN  [players |-> plist,
         hand |-> dealt,
         main_deck |-> Pop(deck1),
         discard_pile |-> <<first>>,
         value |-> vals,
         publicly_visible |-> {first},
         known_to_owner |-> {},
         known_to_other_players |-> [c \in DOMAIN vals |-> {}],
         status |-> [c \in DOMAIN vals |->
                        IF c \in inHand THEN "HAND"
                        ELSE IF c = first THEN "DISCARD_PILE"
                        ELSE "MAIN_DECK"],
         owner |-> [c \in DOMAIN vals |->
                        IF c \in inHand
                        THEN CHOOSE p \in 1..n : c \in Range(dealt[p])
                        ELSE None]]

\* the shuffles of the full card list that are explored
TopOrders ==
    { <<47, 48, 51, 52,   3, 7, 19, 20,   23,   43, 27, 35>>,
      <<3, 4, 19, 23,   7, 8, 9, 31,   5,   11, 36, 44>> }

Shuffles == {Stack(o, Len(CARDS)) : o \in TopOrders}

NoTurn == [kind |-> "none", actor |-> 0, play |-> "", decision |-> "",
           drawn |-> None, sel |-> <<>>, opp |-> 0, i |-> 0, j |-> 0]

-----------------------------------------------------------------------------
(* WebPlayer: the response queue and the round-end confirmation *)

JOIN_TIMEOUT == 35       \* t.join(timeout=35)
GET_TIMEOUT == 60        \* self._response_queue.get(timeout=60)

MaxClients == 3          \* connections the Server accepts
MaxStarters == 2         \* concurrent calls of GameRoom.start_game

\* the people who open the waiting room of a GameRoom
Guests == {"ann", "bob"}

NotStarted == [at |-> "idle", built |-> <<>>, size |-> 0]

\* no lobby: no GameRoom created, no client connected to the Server
RoomIdle ==
    /\ room_state = "none"
    /\ max_players = 0
    /\ room_players = <<>>
    /\ join_error = "none"
    /\ client_names = <<>>
    /\ clients = [c \in 1..MaxClients |-> [at |-> "accepted", name |-> ""]]
    /\ ai_count = 0
    /\ web_player = {}
    /\ starters = [t \in 1..MaxStarters |-> NotStarted]
    /\ session = <<>>
    /\ connected = [g \in Guests |-> "waiting"]
    /\ roster_at_start = <<>>

\* a match without WebPlayers: Game._show_round_end_to_players returns at
\* once and no response queue is read
WebIdle ==
    /\ web = {}
    /\ summary = "idle"
    /\ joining = 0
    /\ join_started = 0
    /\ confirm = [p \in 1..numPlayers |-> "none"]
    /\ request = [p \in 1..numPlayers |-> "none"]
    /\ response_queue = [p \in 1..numPlayers |-> <<>>]
    /\ peek_wait = [p \in 1..numPlayers |-> "none"]
    /\ clock = 0
    /\ RoomIdle

-----------------------------------------------------------------------------
(* Game.__init__ *)

Init ==
    /\ numPlayers \in ALLOWED_PLAYER_COUNTS
    /\ players_game_score = [p \in 1..numPlayers |-> 0]
    /\ matched_100 = [p \in 1..numPlayers |-> FALSE]
    /\ called_kabo = [p \in 1..numPlayers |-> FALSE]
    /\ hand = [p \in 1..numPlayers |-> <<>>]
    /\ start_player_index = 0
    /\ rounds = 0
    /\ players = <<>>
    /\ kabo_called = FALSE
    /\ main_deck = <<>>
    /\ discard_pile = <<>>
    /\ round_scores = <<>>
    /\ kabo_counter = numPlayers
    /\ kabo_active = FALSE
    /\ players_cycle = 1
    /\ peeker = 1
    /\ value = <<>>
    /\ publicly_visible = {}
    /\ known_to_owner = {}
    /\ known_to_other_players = <<>>
    /\ status = <<>>
    /\ owner = <<>>
    /\ pc = "INIT_ROUND"
    /\ err = "none"
    /\ last = NoTurn
    /\ turns = 0
    /\ since_kabo = -1
    /\ knew = {}
    /\ WebIdle

\* Game.play_game, top of the loop: _init_round and rounds.append
InitRound(deck0) ==
    /\ pc = "INIT_ROUND"
    /\ rounds < MaxRounds
    /\ LET r == NewRound(numPlayers, CARDS, deck0, start_player_index)
       IN  /\ players' = r.players
           /\ hand' = r.hand
           /\ main_deck' = r.main_deck
           /\ discard_pile' = r.discard_pile
           /\ value' = r.value
           /\ publicly_visible' = r.publicly_visible
           /\ known_to_owner' = r.known_to_owner
           /\ known_to_other_players' = r.known_to_other_players
           /\ status' = r.status
           /\ owner' = r.owner
    /\ called_kabo' = [p \in 1..numPlayers |-> FALSE]
    /\ kabo_called' = FALSE
    /\ round_scores' = <<>>
    /\ kabo_counter' = numPlayers
    /\ kabo_active' = FALSE
    /\ players_cycle' = 1
    /\ peeker' = 1
    /\ rounds' = rounds + 1
    /\ pc' = "PEEKING"
    /\ last' = [NoTurn EXCEPT !.kind = "deal"]
    /\ since_kabo' = -1
    /\ knew' = {}
    /\ UNCHANGED <<numPlayers, players_game_score, matched_100,
                   start_player_index, err, turns, webVars>>

-----------------------------------------------------------------------------
(* Round._let_players_see_cards *)

\* what pick_cards_to_see(2) returns: no preference, or two positions
PeekChoices == { <<1, 3>> }

\* Player.check_own_cards: the cards that become known to their owner
CheckOwnCards(h, num_cards, which_position) ==
    IF which_position = <<>>
    THEN {h[i] : i \in 1..num_cards}
    ELSE {h[which_position[k] + 1] : k \in DOMAIN which_position}

\* history: the pairs of knew once the hands are h and the owners know kto
KnewAfter(h, kto) ==
    knew \cup {x \in (DOMAIN h) \X kto : x[2] \in Range(h[x[1]])}

\* one iteration of the peek loop; after the last one start_playing sets up
\* its turn loop
LetPlayerSeeCards(which) ==
    /\ pc = "PEEKING"
    /\ LET p == players[peeker]
       IN  /\ \A k \in DOMAIN which : which[k] \in 0..(Len(hand[p]) - 1)
           /\ known_to_owner' = known_to_owner \cup
                  CheckOwnCards(hand[p], NUMBER_OF_CARDS_TO_SEE, which)
           /\ last' = [NoTurn EXCEPT !.kind = "peek", !.actor = p,
                                     !.sel = which]
    /\ IF peeker = Len(players)
       THEN /\ pc' = "PLAYING"
            /\ peeker' = peeker
            /\ players_cycle' = 1
            /\ kabo_counter' = Len(players)
            /\ kabo_active' = FALSE
       ELSE /\ peeker' = peeker + 1
            /\ UNCHANGED <<pc, players_cycle, kabo_counter, kabo_active>>
    /\ knew' = KnewAfter(hand, known_to_owner')
    /\ UNCHANGED <<gameVars, called_kabo, hand, players, kabo_called,
                   main_deck, discard_pile, round_scores, value,
                   publicly_visible, known_to_other_players, status, owner,
                   err, turns, since_kabo, webVars>>

-----------------------------------------------------------------------------
(* The cards and hands of the round as one value, for the methods of      *)
(* Player that change them.                                                *)

Cur == [hand |-> hand, deck |-> main_deck, dp |-> discard_pile,
        pv |-> publicly_visible, kto |-> known_to_owner,
        ktop |-> known_to_other_players, st |-> status, err |-> "none"]

\* Round.discard_card
DiscardCard(R, card) ==
    [R EXCEPT !.st = [@ EXCEPT ![card] = "DISCARD_PILE"],
              !.pv = @ \cup {card},
              !.dp = Append(@, card)]

\* CheckCardListConsistency that trusts the selection
CheckCardListConsistencyTrusting(cards) == TRUE

\* Card.check_card_list_consistency
CheckCardListConsistency(cards) ==
    ~ (Cardinality({value[cards[k]] : k \in DOMAIN cards})
          > NUM_KINDS_FOR_MULTIPLE_DISCARD)

\* Player.check_knowledge_of_card
CheckKnowledgeOfCard(R, p, card) ==
    IF card \in Range(R.hand[p])
    THEN card \in R.kto
    ELSE p \in R.ktop[card]

SetKnownToOwner(R, card, known) ==
    [R EXCEPT !.kto = IF known THEN @ \cup {card} ELSE @ \ {card}]

\* Player.perform_card_exchange, the loop over the selected cards: each is
\* put on the discard pile and its place in the hand is set to None;
\* hand.index raises ValueError for a card that is no longer in the hand
RECURSIVE ExchangeLoop(_, _, _, _)
ExchangeLoop(R, p, free, rest) ==
    IF rest = <<>> THEN [r |-> R, free |-> free]
    ELSE LET card == Head(rest)
             r1 == DiscardCard(R, card)
             idx == IndexOf(R.hand[p], card)
         IN  IF idx = 0
             THEN [r |-> [r1 EXCEPT !.err = "ValueError"], free |-> free]
             ELSE ExchangeLoop([r1 EXCEPT !.hand[p][idx] = None], p,
                               Append(free, idx - 1), Tail(rest))

Decline == -1        \* pick_position_for_new_card returning None

\* PerformCardExchange putting the drawn card behind the cards that stay
PerformCardExchangeAppend(R, p, selected, drawn, position) ==
    LET ex == ExchangeLoop(R, p, <<>>, selected)
    IN  IF ex.r.err # "none" THEN ex.r
        ELSE IF position # Decline
        THEN [ex.r EXCEPT !.hand[p] = Append(FilterNones(ex.r.hand[p]), drawn)]
        ELSE DiscardCard(ex.r, drawn)

\* Player.perform_card_exchange
PerformCardExchange(R, p, selected, drawn, position) ==
    LET ex == ExchangeLoop(R, p, <<>>, selected)
    IN  IF ex.r.err # "none" THEN ex.r
        ELSE IF position # Decline
        THEN [ex.r EXCEPT !.hand[p] =
                 FilterNones([ex.r.hand[p] EXCEPT ![position + 1] = drawn])]
        ELSE DiscardCard(ex.r, drawn)

\* _round.main_deck.cards.pop(): IndexError on an empty deck
MainDeckPop(R) ==
    IF R.deck = <<>> THEN [R EXCEPT !.err = "IndexError"]
    ELSE [R EXCEPT !.deck = Pop(@)]

\* FailedMultiExchange losing the penalty card between deck and hand
FailedMultiExchangeLost(R, p, drawn, attempted) ==
    LET r1 == [R EXCEPT !.pv = @ \cup Range(attempted),
                        !.hand[p] = Append(@, drawn)]
    IN  IF Len(attempted) >= 3 /\ r1.deck # <<>>
        THEN [r1 EXCEPT !.deck = Pop(@)]
        ELSE r1

\* FailedMultiExchange with the penalty for more than three cards only
FailedMultiExchangeLate(R, p, drawn, attempted) ==
    LET r1 == [R EXCEPT !.pv = @ \cup Range(attempted),
                        !.hand[p] = Append(@, drawn)]
    IN  IF Len(attempted) > 3 /\ r1.deck # <<>>
        THEN LET penalty_card == Top(r1.deck)
             IN  [r1 EXCEPT !.deck = Pop(@),
                            !.st = [@ EXCEPT ![penalty_card] = "HAND"],
                            !.hand[p] = Append(@, penalty_card)]
        ELSE r1

\* FailedMultiExchange drawing the penalty card whatever the deck holds
FailedMultiExchangeUnguarded(R, p, drawn, attempted) ==
    LET r1 == [R EXCEPT !.pv = @ \cup Range(attempted),
                        !.hand[p] = Append(@, drawn)]
        r2 == MainDeckPop(r1)
    IN  IF Len(attempted) >= 3
        THEN IF r2.err # "none" THEN r2
             ELSE LET penalty_card == Top(r1.deck)
                  IN  [r2 EXCEPT !.st = [@ EXCEPT ![penalty_card] = "HAND"],
                                 !.hand[p] = Append(@, penalty_card)]
        ELSE r1

\* Player.failed_multi_exchange
FailedMultiExchange(R, p, drawn, attempted) ==
    LET r1 == [R EXCEPT !.pv = @ \cup Range(attempted),
                        !.hand[p] = Append(@, drawn)]
    IN  IF Len(attempted) >= 3 /\ r1.deck # <<>>
        THEN LET penalty_card == Top(r1.deck)
             IN  [MainDeckPop(r1) EXCEPT
                     !.st = [@ EXCEPT ![penalty_card] = "HAND"],
                     !.hand[p] = Append(@, penalty_card)]
        ELSE r1

\* KeepDrawnCard that does not mark the card as known to its owner
KeepDrawnCardUnknown(R, p, drawn, selected, position) ==
    LET r0 == [R EXCEPT !.st = [@ EXCEPT ![drawn] = "HAND"],
                        !.pv = @ \ {drawn}]
    IN  IF CheckCardListConsistency(selected)
        THEN PerformCardExchange(r0, p, selected, drawn, position)
        ELSE FailedMultiExchange(r0, p, drawn, selected)

\* Player.keep_drawn_card
KeepDrawnCard(R, p, drawn, selected, position) ==
    LET r0 == [R EXCEPT !.st = [@ EXCEPT ![drawn] = "HAND"],
                        !.pv = @ \ {drawn},
                        !.kto = @ \cup {drawn}]
    IN  IF CheckCardListConsistency(selected)
        THEN PerformCardExchange(r0, p, selected, drawn, position)
        ELSE FailedMultiExchange(r0, p, drawn, selected)

\* Peak that also turns the card face up for everybody
PeakPublic(R, p, idx) ==
    [SetKnownToOwner(R, R.hand[p][idx + 1], TRUE) EXCEPT
        !.pv = @ \cup {R.hand[p][idx + 1]}]

\* Player.peak
Peak(R, p, idx) == SetKnownToOwner(R, R.hand[p][idx + 1], TRUE)

\* Spy that shows the whole hand of the opponent
SpyWholeHand(R, p, opponent, idx) ==
    [R EXCEPT !.ktop = [c \in DOMAIN @ |->
                           IF c \in Range(R.hand[opponent])
                           THEN @[c] \cup {p} ELSE @[c]]]

\* Player.spy
Spy(R, p, opponent, idx) ==
    LET spied_card == R.hand[opponent][idx + 1]
    IN  [R EXCEPT !.ktop = [@ EXCEPT ![spied_card] = @ \cup {p}]]

\* Swap that writes the opponent's hand only
SwapOneWay(R, p, opponent, own_card_idx, opponents_card_idx) ==
    LET mine == R.hand[p][own_card_idx + 1]
    IN  [R EXCEPT !.hand[opponent][opponents_card_idx + 1] = mine]

\* Swap after which nobody is recorded as a spy of the two cards
SwapForgetSpies(R, p, opponent, own_card_idx, opponents_card_idx) ==
    LET mine == R.hand[p][own_card_idx + 1]
        theirs == R.hand[opponent][opponents_card_idx + 1]
    IN  [R EXCEPT !.hand =
                     [@ EXCEPT ![p] = [@ EXCEPT ![own_card_idx + 1] = theirs],
                               ![opponent] =
                                   [@ EXCEPT ![opponents_card_idx + 1] = mine]],
                  !.ktop = [@ EXCEPT ![mine] = {}, ![theirs] = {}]]

\* Player.swap
Swap(R, p, opponent, own_card_idx, opponents_card_idx) ==
    LET mine == R.hand[p][own_card_idx + 1]
        theirs == R.hand[opponent][opponents_card_idx + 1]
        r1 == [R EXCEPT !.hand =
                 [@ EXCEPT ![p] = [@ EXCEPT ![own_card_idx + 1] = theirs],
                           ![opponent] =
                               [@ EXCEPT ![opponents_card_idx + 1] = mine]]]
        opponents_card == r1.hand[opponent][opponents_card_idx + 1]
        own_card == r1.hand[p][own_card_idx + 1]
        r2 == SetKnownToOwner(r1, opponents_card,
                  CheckKnowledgeOfCard(r1, opponent, opponents_card))
    IN  SetKnownToOwner(r2, own_card,
            CheckKnowledgeOfCard(r2, p, own_card))

-----------------------------------------------------------------------------
(* What the decision methods of the players return *)

Min(a, b) == IF a < b THEN a ELSE b

\* a position of a hand (pick_cards_to_see(1), specify_spying, specify_swap)
Positions(h) == 0..(Min(Len(h), MaxPos) - 1)

\* pick_hand_cards_for_exchange: the first m positions of the own hand, or
\* the second position alone
Selections ==
    {[k \in 1..m |-> k - 1] : m \in 1..MaxSel} \cup { <<1>> }

ExchangeChoices(h) ==
    {sel \in Selections : \A k \in DOMAIN sel : sel[k] < Len(h)}

SelectedCards(h, sel) == [k \in DOMAIN sel |-> h[sel[k] + 1]]

\* pick_position_for_new_card(_free_slots): one of the free slots, None
\* when there is none
PositionChoices(free) ==
    IF free = <<>> THEN {Decline} ELSE Range(free)

\* the _free_slots that keep_drawn_card will offer for this selection
FreeSlots(R, p, selected) ==
    IF CheckCardListConsistency(selected)
    THEN ExchangeLoop(R, p, <<>>, selected).free
    ELSE <<>>

Opponents(p) == {q \in Range(players) : q # p}

-----------------------------------------------------------------------------
(* Round.start_playing: the turn loop *)

\* LoopContinues without the countdown check
LoopContinuesDeckOnly(deck, counter) == deck # <<>>

\* while self.main_deck.cards: if _kabo_counter == 0: break
LoopContinues(deck, counter) == deck # <<>> /\ counter # 0

\* KaboCounterAfter that starts to count with the turn after the call
KaboCounterAfterLate(counter, active) ==
    IF active /\ kabo_active THEN counter - 1 ELSE counter

\* if _kabo_active: _kabo_counter -= 1
KaboCounterAfter(counter, active) ==
    IF active THEN counter - 1 ELSE counter

\* KaboFlagAfter never setting the flag
KaboFlagAfterUnset(flag, kabo) == flag

\* if kabo_called: self.kabo_called = True; _kabo_active = True
KaboFlagAfter(flag, kabo) == flag \/ kabo

current_player == players[players_cycle]

\* NextInCycle passing over one player
NextInCycleSkip(i, n) == ((i + 1) % n) + 1

\* next(_players_cycle): the position after i in a cycle of n players
NextInCycle(i, n) == (i % n) + 1

\* Player.perform_turn: what the answer of pick_turn_type leads to
PerformTurn(players_play_decision, kc) ==
    IF players_play_decision = "KABO"
    THEN IF kc THEN "hit_deck" ELSE "call_kabo"
    ELSE IF players_play_decision = "HIT_DECK" THEN "hit_deck"
    ELSE IF players_play_decision = "HIT_DISCARD_PILE" THEN "hit_discard_pile"
    ELSE "ValueError"

\* Player.call_kabo: the called_kabo flags afterwards, or the ValueError
\* when Kabo was already called
CallKaboResult(p, kc) ==
    IF kc THEN [err |-> "ValueError", called_kabo |-> called_kabo]
    ELSE [err |-> "none",
          called_kabo |-> [called_kabo EXCEPT ![p] = TRUE]]

\* a round whose turns are not counted: the loop of start_playing keeps no
\* count of its iterations
Uncounted == -1

TurnsAfter(t) == IF t = Uncounted THEN Uncounted ELSE t + 1

\* the turns followed: a round that no Game constructed is in no list of
\* rounds
TurnLimit == IF rounds = 0 THEN MaxRoundTurns ELSE MaxTurns

TurnStarts ==
    /\ pc = "PLAYING"
    /\ LoopContinues(main_deck, kabo_counter)
    /\ turns < TurnLimit

\* DiscardTopRead of a perform_turn that does not look at the pile
DiscardTopNotRead == TRUE

\* Player.perform_turn evaluates _round.discard_pile[-1] before anything
\* else: the turn goes on only when the pile has a top
DiscardTopRead == discard_pile # <<>>

\* the rest of the loop body after perform_turn returned kabo (or raised)
AfterPerformTurn(R, kabo, rec) ==
    /\ hand' = R.hand
    /\ main_deck' = R.deck
    /\ discard_pile' = R.dp
    /\ publicly_visible' = R.pv
    /\ known_to_owner' = R.kto
    /\ known_to_other_players' = R.ktop
    /\ status' = R.st
    /\ last' = rec
    /\ turns' = TurnsAfter(turns)
    /\ knew' = KnewAfter(R.hand, R.kto)
    /\ IF R.err = "none"
       THEN /\ kabo_called' = KaboFlagAfter(kabo_called, kabo)
            /\ kabo_active' = KaboFlagAfter(kabo_active, kabo)
            /\ kabo_counter' = KaboCounterAfter(kabo_counter,
                                   KaboFlagAfter(kabo_active, kabo))
            /\ players_cycle' = NextInCycle(players_cycle, Len(players))
            /\ since_kabo' = IF since_kabo >= 0 THEN since_kabo + 1
                             ELSE IF rec.kind = "kabo" THEN 0 ELSE -1
            /\ UNCHANGED <<pc, err>>
       ELSE /\ err' = R.err
            /\ pc' = "ERROR"
            /\ UNCHANGED <<loopVars, since_kabo>>
    /\ UNCHANGED <<gameVars, players, round_scores, peeker, value, owner,
                   webVars>>

\* Player.perform_turn reads the top of the discard pile before anything
\* else: IndexError when the pile is empty
PerformTurnEmptyPile ==
    /\ TurnStarts
    /\ ~ DiscardTopRead
    /\ AfterPerformTurn([Cur EXCEPT !.err = "IndexError"], FALSE,
           [NoTurn EXCEPT !.kind = "crash", !.actor = current_player])
    /\ UNCHANGED called_kabo

\* Player.perform_turn, "KABO" while no Kabo was called: Player.call_kabo
CallKabo ==
    /\ TurnStarts
    /\ DiscardTopRead
    /\ PerformTurn("KABO", kabo_called) = "call_kabo"
    /\ LET c == CallKaboResult(current_player, kabo_called)
       IN  /\ called_kabo' = c.called_kabo
           /\ AfterPerformTurn([Cur EXCEPT !.err = c.err], TRUE,
                  [NoTurn EXCEPT !.kind = "kabo", !.actor = current_player,
                                 !.play = "KABO"])

\* the state after _round.main_deck.cards.pop()
Drawn == MainDeckPop(Cur)

HitDeckTurn(play) ==
    /\ TurnStarts
    /\ DiscardTopRead
    /\ PerformTurn(play, kabo_called) = "hit_deck"
    /\ UNCHANGED called_kabo

DeckRec(play, decision, kind) ==
    [NoTurn EXCEPT !.kind = kind, !.actor = current_player, !.play = play,
                   !.decision = decision, !.drawn = Top(main_deck)]

\* Player.hit_deck, "DISCARD"
HitDeckDiscard(play) ==
    /\ HitDeckTurn(play)
    /\ AfterPerformTurn(DiscardCard(Drawn, Top(main_deck)), FALSE,
                        DeckRec(play, "DISCARD", "discard"))

\* Player.hit_deck, "EFFECT" for a card without effect: the lookup
\* effect_to_function[None] raises KeyError after the card was discarded
HitDeckNoEffect(play) ==
    /\ HitDeckTurn(play)
    /\ CARD_EFFECTS[value[Top(main_deck)]] = "None"
    /\ AfterPerformTurn(
           [DiscardCard(Drawn, Top(main_deck)) EXCEPT !.err = "KeyError"],
           FALSE, DeckRec(play, "EFFECT", "crash"))

\* Player.hit_deck, "EFFECT" for KUK
HitDeckPeak(play, idx) ==
    /\ HitDeckTurn(play)
    /\ CARD_EFFECTS[value[Top(main_deck)]] = "KUK"
    /\ idx \in Positions(hand[current_player])
    /\ AfterPerformTurn(
           Peak(DiscardCard(Drawn, Top(main_deck)), current_player, idx),
           FALSE,
           [DeckRec(play, "EFFECT", "peak") EXCEPT !.i = idx])

\* Player.hit_deck, "EFFECT" for SPION
HitDeckSpy(play, opponent, idx) ==
    /\ HitDeckTurn(play)
    /\ CARD_EFFECTS[value[Top(main_deck)]] = "SPION"
    /\ opponent \in Opponents(current_player)
    /\ idx \in Positions(hand[opponent])
    /\ AfterPerformTurn(
           Spy(DiscardCard(Drawn, Top(main_deck)), current_player,
               opponent, idx),
           FALSE,
           [DeckRec(play, "EFFECT", "spy") EXCEPT !.opp = opponent,
                                                  !.j = idx])

\* Player.hit_deck, "EFFECT" for KSEFT
HitDeckSwap(play, opponent, own_card_idx, opponents_card_idx) ==
    /\ HitDeckTurn(play)
    /\ CARD_EFFECTS[value[Top(main_deck)]] = "KSEFT"
    /\ opponent \in Opponents(current_player)
    /\ own_card_idx \in Positions(hand[current_player])
    /\ opponents_card_idx \in Positions(hand[opponent])
    /\ AfterPerformTurn(
           Swap(DiscardCard(Drawn, Top(main_deck)), current_player,
                opponent, own_card_idx, opponents_card_idx),
           FALSE,
           [DeckRec(play, "EFFECT", "swap") EXCEPT
               !.opp = opponent, !.i = own_card_idx,
               !.j = opponents_card_idx])

KeepKind(selected) ==
    IF CheckCardListConsistency(selected) THEN "exchange" ELSE "failed"

\* Player.hit_deck, "KEEP": Player.keep_drawn_card
HitDeckKeep(play, sel, position) ==
    /\ HitDeckTurn(play)
    /\ sel \in ExchangeChoices(hand[current_player])
    /\ LET selected == SelectedCards(hand[current_player], sel)
       IN  /\ position \in PositionChoices(
                               FreeSlots(Drawn, current_player, selected))
           /\ AfterPerformTurn(
                  KeepDrawnCard(Drawn, current_player, Top(main_deck),
                                selected, position),
                  FALSE,
                  [DeckRec(play, "KEEP", KeepKind(selected)) EXCEPT
                      !.sel = sel, !.i = position])

\* DiscardPile.hit: self.cards.pop(), IndexError on an empty pile
Hit(R) ==
    IF R.dp = <<>> THEN [R EXCEPT !.err = "IndexError"]
    ELSE [R EXCEPT !.dp = Pop(@)]

\* Player.hit_discard_pile
HitDiscardPile(sel, position) ==
    /\ TurnStarts
    /\ DiscardTopRead
    /\ PerformTurn("HIT_DISCARD_PILE", kabo_called) = "hit_discard_pile"
    /\ sel \in ExchangeChoices(hand[current_player])
    /\ LET hit == Hit(Cur)
           _top_discarded_card ==
               IF hit.err = "none" THEN Top(discard_pile) ELSE None
           selected == SelectedCards(hand[current_player], sel)
           kept == IF hit.err = "none"
                   THEN KeepDrawnCard(hit, current_player,
                                      _top_discarded_card, selected, position)
                   ELSE hit
       IN  /\ hit.err = "none" =>
                 position \in PositionChoices(
                                 FreeSlots(hit, current_player, selected))
           /\ AfterPerformTurn(
                  IF kept.err = "none"
                  THEN [kept EXCEPT !.pv = @ \cup {_top_discarded_card}]
                  ELSE kept,
                  FALSE,
                  [NoTurn EXCEPT !.kind = IF hit.err = "none"
                                          THEN KeepKind(selected)
                                          ELSE "crash",
                                 !.actor = current_player,
                                 !.play = "HIT_DISCARD_PILE",
                                 !.drawn = _top_discarded_card,
                                 !.sel = sel, !.i = position])
    /\ UNCHANGED called_kabo

-----------------------------------------------------------------------------
(* Scoring *)

HandValues(p) == [k \in DOMAIN hand[p] |-> value[hand[p][k]]]

MinOf(S) == CHOOSE x \in S : \A y \in S : x <= y

\* GetPlayersScoreInRound where a tie fails the Kabo
RECURSIVE GetPlayersScoreInRoundStrict(_)
GetPlayersScoreInRoundStrict(p) ==
    LET _sum_hand == SumSeq(HandValues(p))
    IN  IF ~ called_kabo[p] THEN _sum_hand
        ELSE LET _other_player_scores ==
                     {GetPlayersScoreInRoundStrict(q) :
                         q \in Range(players) \ {p}}
             IN  IF MinOf(_other_player_scores) > _sum_hand
                 THEN 0
                 ELSE _sum_hand + KABO_MALUS

\* Player.get_players_score_in_round
RECURSIVE GetPlayersScoreInRound(_)
GetPlayersScoreInRound(p) ==
    LET _sum_hand == SumSeq(HandValues(p))
    IN  IF ~ called_kabo[p] THEN _sum_hand
        ELSE LET _other_player_scores ==
                     {GetPlayersScoreInRound(q) : q \in Range(players) \ {p}}
             IN  IF MinOf(_other_player_scores) >= _sum_hand
                 THEN 0
                 ELSE _sum_hand + KABO_MALUS

PlayerActivatedKamikadze(p) ==
    /\ Len(hand[p]) \in NUMBER_OF_CARDS_FOR_KAMIKADZE
    /\ \A card_val \in DOMAIN KAMIKADZE_VALUES :
          ~ (Count(HandValues(p), card_val) < KAMIKADZE_VALUES[card_val])

\* Round._check_kamikadze: the first such player of the round, or None
CheckKamikadze ==
    IF \E i \in DOMAIN players : PlayerActivatedKamikadze(players[i])
    THEN players[CHOOSE i \in DOMAIN players :
                    /\ PlayerActivatedKamikadze(players[i])
                    /\ \A k \in 1..(i - 1) :
                          ~ PlayerActivatedKamikadze(players[k])]
    ELSE None

\* AddedToGameScore with the round's score added a second time
AddedToGameScoreTwice(p) ==
    LET kamikadze_player == CheckKamikadze
    IN  IF kamikadze_player # None
        THEN IF p # kamikadze_player THEN 2 * KAMIKADZE_PENALTY ELSE 0
        ELSE 2 * GetPlayersScoreInRound(p)

\* Round._update_players_game_scores: what is added to a player's game score
AddedToGameScore(p) ==
    LET kamikadze_player == CheckKamikadze
    IN  IF kamikadze_player # None
        THEN IF p # kamikadze_player THEN KAMIKADZE_PENALTY ELSE 0
        ELSE GetPlayersScoreInRound(p)

\* Round.start_playing once the turn loop has ended
ScoreRound ==
    /\ pc = "PLAYING"
    /\ ~ LoopContinues(main_deck, kabo_counter)
    /\ round_scores' = [p \in Range(players) |-> GetPlayersScoreInRound(p)]
    /\ players_game_score' =
           [p \in DOMAIN players_game_score |->
               players_game_score[p] + AddedToGameScore(p)]
    /\ pc' = "ROUND_END"
    /\ last' = [NoTurn EXCEPT !.kind = "score"]
    /\ UNCHANGED <<numPlayers, matched_100, called_kabo, hand,
                   start_player_index, rounds, players, loopVars, main_deck,
                   discard_pile, peeker, cardVars, err, turns, since_kabo,
                   knew, webVars>>

-----------------------------------------------------------------------------
(* Game.play_game after a round *)

\* the loop over _scores.items(), from roster position p on: a score of
\* exactly TARGET_POINT_VALUE calls Player.reached_score_100 unless
\* _play_next_round is already False
RECURSIVE CheckScores(_, _, _, _, _)
CheckScores(p, _scores, _play_next_round, m100, score) ==
    IF p > Len(_scores)
    THEN [play |-> _play_next_round, m100 |-> m100, score |-> score]
    ELSE IF _scores[p] = TARGET_POINT_VALUE
    THEN IF ~ _play_next_round
         THEN CheckScores(p + 1, _scores, FALSE, m100, score)
         ELSE IF m100[p]
         THEN CheckScores(p + 1, _scores, FALSE, m100, score)
         ELSE CheckScores(p + 1, _scores, TRUE,
                  [m100 EXCEPT ![p] = TRUE],
                  [score EXCEPT ![p] = POINT_VALUE_AFTER_HITTING_TARGET])
    ELSE IF _scores[p] > TARGET_POINT_VALUE
    THEN CheckScores(p + 1, _scores, FALSE, m100, score)
    ELSE CheckScores(p + 1, _scores, _play_next_round, m100, score)

\* Game._update_start_player: the first player with the lowest game score
UpdateStartPlayer(score) ==
    (CHOOSE i \in DOMAIN score :
        /\ \A q \in DOMAIN score : score[i] <= score[q]
        /\ \A k \in 1..(i - 1) : score[k] # score[i]) - 1

AfterRound ==
    /\ pc = "ROUND_END"
    /\ LET c == CheckScores(1, players_game_score, TRUE, matched_100,
                            players_game_score)
       IN  /\ matched_100' = c.m100
           /\ players_game_score' = c.score
           /\ start_player_index' = UpdateStartPlayer(c.score)
           /\ pc' = IF c.play THEN "INIT_ROUND" ELSE "GAME_OVER"
    /\ last' = [NoTurn EXCEPT !.kind = "standings"]
    /\ UNCHANGED <<numPlayers, called_kabo, hand, rounds, players, loopVars,
                   main_deck, discard_pile, round_scores, peeker, cardVars,
                   err, turns, since_kabo, knew, webVars>>

-----------------------------------------------------------------------------

RoundNext ==
    \/ \E which \in PeekChoices : LetPlayerSeeCards(which)
    \/ PerformTurnEmptyPile
    \/ CallKabo
    \/ \E play \in ALLOWED_PLAYS : HitDeckDiscard(play)
    \/ \E play \in ALLOWED_PLAYS : HitDeckNoEffect(play)
    \/ \E play \in ALLOWED_PLAYS, idx \in 0..(MaxPos - 1) :
          HitDeckPeak(play, idx)
    \/ \E play \in ALLOWED_PLAYS, opponent \in 1..numPlayers,
          idx \in 0..(MaxPos - 1) : HitDeckSpy(play, opponent, idx)
    \/ \E play \in ALLOWED_PLAYS, opponent \in 1..numPlayers,
          i \in 0..(MaxPos - 1), j \in 0..(MaxPos - 1) :
          HitDeckSwap(play, opponent, i, j)
    \/ \E play \in ALLOWED_PLAYS, sel \in Selections :
          \E position \in {Decline} \cup Range(sel) :
             HitDeckKeep(play, sel, position)
    \/ \E sel \in Selections :
          \E position \in {Decline} \cup Range(sel) :
             HitDiscardPile(sel, position)
    \/ ScoreRound

Next ==
    \/ \E deck0 \in Shuffles : InitRound(deck0)
    \/ RoundNext
    \/ AfterRound

Spec == Init /\ [][Next]_vars

-----------------------------------------------------------------------------
(* A Round constructed directly, Round(cards, players, game), on a short  *)
(* list of cards: the turn loop also ends because the deck runs out.      *)

\* the values of the cards in the order the round pops them: the hands of
\* the players, the first discarded card, the cards left in the deck
ShortHands == << <<5, 5, 6, 1>>, <<2, 3, 4, 4>>, <<8, 8, 1, 0>> >>

ShortDecks == { <<9, 11>>, <<7, 3>>, <<12>>, <<2>> }

ShortPops(n, draws) ==
    (IF n = 2 THEN ShortHands[1] \o ShortHands[2]
     ELSE ShortHands[1] \o ShortHands[2] \o ShortHands[3]) \o <<6>> \o draws

\* a round on a short deck, constructed with no Game around it
RoundOnlyDealt ==
    /\ numPlayers \in {2, 3}
    /\ players_game_score = [p \in 1..numPlayers |-> 0]
    /\ matched_100 = [p \in 1..numPlayers |-> FALSE]
    /\ called_kabo = [p \in 1..numPlayers |-> FALSE]
    /\ start_player_index \in 0..1
    /\ rounds = 0
    /\ \E draws \in ShortDecks :
          LET vals == ShortPops(numPlayers, draws)
              r == NewRound(numPlayers, vals,
                            Stack([i \in 1..Len(vals) |-> i], Len(vals)),
                            start_player_index)
          IN  /\ players = r.players
              /\ hand = r.hand
              /\ main_deck = r.main_deck
              /\ discard_pile = r.discard_pile
              /\ value = r.value
              /\ publicly_visible = r.publicly_visible
              /\ known_to_owner = r.known_to_owner
              /\ known_to_other_players = r.known_to_other_players
              /\ status = r.status
              /\ owner = r.owner
    /\ kabo_called = FALSE
    /\ round_scores = <<>>
    /\ kabo_counter = numPlayers
    /\ kabo_active = FALSE
    /\ players_cycle = 1
    /\ peeker = 1
    /\ pc = "PEEKING"
    /\ err = "none"
    /\ last = [NoTurn EXCEPT !.kind = "deal"]
    /\ since_kabo = -1
    /\ knew = {}
    /\ WebIdle

InitRoundOnly == RoundOnlyDealt /\ turns = 0

SpecRound == InitRoundOnly /\ [][RoundNext]_vars

-----------------------------------------------------------------------------
(* The end of the turn loop of a round of the full card list, for hands   *)
(* of every shape: Round.start_playing computes the scores.                *)

ScoreHands ==
    { <<3, 7>>,                 \* 1 2
      <<19, 20>>,               \* 5 5
      <<35, 36>>,               \* 9 9
      <<4, 5>>,                 \* 1 1
      <<1, 11>>,                \* 0 3
      <<47, 48, 51, 52>>,       \* 12 12 13 13
      <<49, 51, 50, 52>>,       \* 12 13 12 13
      <<47, 48, 49, 51>>,       \* 12 12 12 13
      <<47, 48, 51, 52, 6>> }   \* 12 12 13 13 1

InitScoring ==
    /\ numPlayers \in {2, 3}
    /\ players_game_score = [p \in 1..numPlayers |-> 0]
    /\ matched_100 = [p \in 1..numPlayers |-> FALSE]
    /\ called_kabo \in {ck \in [1..numPlayers -> BOOLEAN] :
                          Cardinality({p \in 1..numPlayers : ck[p]}) <= 1}
    /\ start_player_index = 0
    /\ rounds = 1
    /\ players = RotatedPlayers(numPlayers, 0)
    /\ hand \in {h \in [1..numPlayers -> ScoreHands] :
                   \A p, q \in 1..numPlayers :
                      p # q => Range(h[p]) \cap Range(h[q]) = {}}
    /\ main_deck = <<>>
    /\ LET inHand == UNION {Range(hand[p]) : p \in 1..numPlayers}
       IN  /\ discard_pile = SelectSeq([c \in 1..Len(CARDS) |-> c],
                                       LAMBDA c : c \notin inHand)
           /\ publicly_visible = (1..Len(CARDS)) \ inHand
           /\ status = [c \in 1..Len(CARDS) |->
                           IF c \in inHand THEN "HAND" ELSE "DISCARD_PILE"]
           /\ owner = [c \in 1..Len(CARDS) |->
                          IF c \in inHand
                          THEN CHOOSE p \in 1..numPlayers :
                                  c \in Range(hand[p])
                          ELSE None]
    /\ value = CARDS
    /\ known_to_owner = {}
    /\ known_to_other_players = [c \in 1..Len(CARDS) |-> {}]
    /\ kabo_called = (\E p \in 1..numPlayers : called_kabo[p])
    /\ kabo_active = kabo_called
    /\ kabo_counter = IF kabo_called THEN 0 ELSE numPlayers
    /\ round_scores = <<>>
    /\ players_cycle = 1
    /\ peeker = numPlayers
    /\ pc = "PLAYING"
    /\ err = "none"
    /\ last = NoTurn
    /\ turns = 0
    /\ since_kabo = IF kabo_called THEN numPlayers - 1 ELSE -1
    /\ knew = {}
    /\ WebIdle

SpecScoring == InitScoring /\ [][ScoreRound]_vars

-----------------------------------------------------------------------------
(* The end of a round late in a match: the game scores of the players are  *)
(* near the target.  Game.play_game reads the scores, updates the start    *)
(* player and constructs the next round.                                   *)

\* game scores after the round's scores were added
MatchScores == {40, 50, TARGET_POINT_VALUE, TARGET_POINT_VALUE + 1}

\* the hands the round ended with
MatchHands == << <<3, 7>>, <<19, 20>>, <<35, 36>> >>

\* who ended the round with which of them: in roster order or reversed
MatchDeals(n) == { [p \in 1..n |-> MatchHands[p]],
                   [p \in 1..n |-> MatchHands[n + 1 - p]] }

MatchStart ==
    /\ numPlayers \in {2, 3}
    /\ players_game_score \in [1..numPlayers -> MatchScores]
    /\ matched_100 \in
          {m \in [1..numPlayers -> BOOLEAN] :
              \A p \in 1..numPlayers :
                 m[p] => players_game_score[p]
                            >= POINT_VALUE_AFTER_HITTING_TARGET}
    /\ called_kabo = [p \in 1..numPlayers |-> FALSE]
    /\ start_player_index \in 0..(numPlayers - 1)
    /\ rounds = 1
    /\ players = RotatedPlayers(numPlayers, start_player_index)
    /\ hand \in MatchDeals(numPlayers)
    /\ main_deck = <<>>
    /\ LET inHand == UNION {Range(hand[p]) : p \in 1..numPlayers}
       IN  /\ discard_pile = SelectSeq([c \in 1..Len(CARDS) |-> c],
                                       LAMBDA c : c \notin inHand)
           /\ publicly_visible = (1..Len(CARDS)) \ inHand
           /\ status = [c \in 1..Len(CARDS) |->
                           IF c \in inHand THEN "HAND" ELSE "DISCARD_PILE"]
           /\ owner = [c \in 1..Len(CARDS) |->
                          IF c \in inHand
                          THEN CHOOSE p \in 1..numPlayers :
                                  c \in Range(hand[p])
                          ELSE None]
    /\ value = CARDS
    /\ known_to_owner = {}
    /\ known_to_other_players = [c \in 1..Len(CARDS) |-> {}]
    /\ kabo_called = FALSE
    /\ kabo_active = FALSE
    /\ kabo_counter = numPlayers
    /\ round_scores = [p \in 1..numPlayers |-> SumSeq(HandValues(p))]
    /\ players_cycle = 1
    /\ peeker = numPlayers
    /\ pc = "ROUND_END"
    /\ err = "none"
    /\ last = [NoTurn EXCEPT !.kind = "score"]
    /\ turns = 0
    /\ since_kabo = -1
    /\ knew = {}

InitMatch == MatchStart /\ WebIdle

\* StandingKey without the score of the last round
StandingKeyTotal(p) == <<players_game_score[p], 0>>

\* Game._report_standings_after_game: the sort key of a player
StandingKey(p) == <<players_game_score[p], GetPlayersScoreInRound(p)>>

\* tuple comparison, and list order for equal keys (sorted is stable)
Precedes(p, q) ==
    LET a == StandingKey(p)
        b == StandingKey(q)
    IN  \/ a[1] < b[1]
        \/ a[1] = b[1] /\ a[2] < b[2]
        \/ a = b /\ p < q

\* sorted(self.players, key=...) over a set of players
RECURSIVE SortedPlayers(_)
SortedPlayers(S) ==
    IF S = {} THEN <<>>
    ELSE LET first == CHOOSE p \in S : \A q \in S \ {p} : Precedes(p, q)
         IN  <<first>> \o SortedPlayers(S \ {first})

\* Game._report_standings_after_game: _sorted_players
Standings == SortedPlayers(1..numPlayers)

MatchNext ==
    \/ AfterRound
    \/ \E deck0 \in Shuffles : InitRound(deck0)

SpecMatch == InitMatch /\ [][MatchNext]_vars

-----------------------------------------------------------------------------
(* Players bound to a remote client (NetworkPlayer, WebPlayer): the answer *)
(* of the client is handed to the engine as it arrives.                    *)

\* Player.hit_deck when decide_on_card_use returns none of KEEP, DISCARD,
\* EFFECT: no case of the match statement is taken
HitDeckGarbage(play) ==
    /\ HitDeckTurn(play)
    /\ AfterPerformTurn(Drawn, FALSE, DeckRec(play, "GARBAGE", "ignored"))

\* NetworkPlayer.pick_hand_cards_for_exchange: [self.hand[p] for p in
\* positions] for the positions the client sent, repeated ones and none at
\* all included
RemoteSelections == { <<0, 0>>, <<0, 1>>, <<>> }

\* NetworkPlayer.pick_position_for_new_card: None without a free slot, the
\* free slot when there is one, otherwise what the client sent: a position
\* of the hand or a value that is no int
RemotePositions == {Decline} \cup (0..MaxPos)

RemotePositionChoices(free, h) ==
    IF free = <<>> THEN {Decline}
    ELSE IF Len(free) = 1 THEN {free[1]}
    ELSE {x \in RemotePositions : x < Len(h)}

\* Player.hit_deck, "KEEP", with the selection and the position of a
\* remote client
HitDeckKeepRemote(play, sel, position) ==
    /\ HitDeckTurn(play)
    /\ sel \in RemoteSelections
    /\ \A k \in DOMAIN sel : sel[k] < Len(hand[current_player])
    /\ LET selected == SelectedCards(hand[current_player], sel)
       IN  /\ position \in RemotePositionChoices(
                               FreeSlots(Drawn, current_player, selected),
                               hand[current_player])
           /\ AfterPerformTurn(
                  KeepDrawnCard(Drawn, current_player, Top(main_deck),
                                selected, position),
                  FALSE,
                  [DeckRec(play, "KEEP", KeepKind(selected)) EXCEPT
                      !.sel = sel, !.i = position])

\* no hand holds a None
HandsWhole == \A p \in 1..numPlayers : None \notin Range(hand[p])

\* a None left in a hand: the next read of a field of that entry raises
\* AttributeError, at the latest card.known_to_owner in the owner's next
\* _hand_info or c.value in get_players_score_in_round.  The turns of the
\* other players before that are not followed.
HoleFound ==
    /\ pc = "PLAYING"
    /\ ~ HandsWhole
    /\ pc' = "ERROR"
    /\ err' = "AttributeError"
    /\ last' = [NoTurn EXCEPT !.kind = "crash"]
    /\ UNCHANGED <<gameVars, called_kabo, hand, players, main_deck,
                   discard_pile, round_scores, loopVars, peeker, cardVars,
                   turns, since_kabo, knew, webVars>>

RemoteNext ==
    \/ HandsWhole /\ Next
    \/ HandsWhole /\ \E play \in ALLOWED_PLAYS : HitDeckGarbage(play)
    \/ HandsWhole /\ \E play \in ALLOWED_PLAYS, sel \in RemoteSelections,
                         position \in RemotePositions :
                            HitDeckKeepRemote(play, sel, position)
    \/ HoleFound

SpecRemote == Init /\ [][RemoteNext]_vars

-----------------------------------------------------------------------------
(* Properties *)

HandSizes == [p \in 1..numPlayers |-> Len(hand[p])]

TotalCards == Len(main_deck) + SumSeq(HandSizes) + Len(discard_pile)

TurnTaken == turns' = turns + 1

\* C1: once a round is dealt, and after every turn of every kind, the cards
\* in the deck, in all hands and on the discard pile number 52.
C1_CardConservation == rounds >= 1 => TotalCards = 52

\* a failed exchange of three cards has drawn its penalty card
C1_Witness ==
    /\ last.kind = "failed"
    /\ Len(last.sel) >= 3
    /\ Len(hand[last.actor]) = CARDS_PER_PLAYER + 2
    /\ TotalCards = 52

\* C2: after a Kabo call at most N-1 further turns are completed; the round
\* is scored after exactly N-1 of them, or after fewer with an empty deck;
\* after the (N-1)-th no turn can start and the scoring can.
C2_KaboCountdown ==
    /\ since_kabo <= numPlayers - 1
    /\ (pc = "ROUND_END" /\ since_kabo >= 0) =>
          (since_kabo = numPlayers - 1 \/ main_deck = <<>>)
    /\ (pc = "PLAYING" /\ since_kabo = numPlayers - 1) =>
          (~ ENABLED CallKabo /\ ENABLED ScoreRound)

\* three players, Kabo, two further turns, scored with cards left
C2_Witness ==
    /\ pc = "ROUND_END"
    /\ numPlayers = 3
    /\ since_kabo = numPlayers - 1
    /\ main_deck # <<>>

\* the new owner p had spied on card c, or had owned and known it
PriorKnowledge(p, c) ==
    p \in known_to_other_players[c] \/ <<p, c>> \in knew

\* C3: after a Swap each of the two cards is known to its owner iff the new
\* owner had spied on it or had owned and known it before.
C3_SwapKnowledge ==
    [][(TurnTaken /\ last'.kind = "swap") =>
          LET a == last'.actor
              o == last'.opp
              mine == hand[a][last'.i + 1]
              theirs == hand[o][last'.j + 1]
          IN  /\ (theirs \in known_to_owner') <=> PriorKnowledge(a, theirs)
              /\ (mine \in known_to_owner') <=> PriorKnowledge(o, mine)]_vars

KaboCallers == {p \in 1..numPlayers : called_kabo[p]}

\* C4: at most one player has called_kabo; the round's kabo_called is true
\* iff some player has; right after dealing both are false.
C4_SingleKaboCaller ==
    /\ Cardinality(KaboCallers) <= 1
    /\ kabo_called <=> (KaboCallers # {})
    /\ last.kind = "deal" => (~ kabo_called /\ KaboCallers = {})

\* after a Kabo call another player has chosen KABO as well
C4_Witness ==
    /\ kabo_called
    /\ last.play = "KABO"
    /\ last.actor \notin KaboCallers
    /\ Cardinality(KaboCallers) = 1

\* C5: a turn whose chosen action is KABO after Kabo was called fails, draws
\* no card and changes no called_kabo flag.
C5_DuplicateKaboFails ==
    [][(TurnTaken /\ last'.play = "KABO" /\ kabo_called) =>
          /\ err' # "none"
          /\ main_deck' = main_deck
          /\ discard_pile' = discard_pile
          /\ hand' = hand
          /\ called_kabo' = called_kabo]_vars

IsKamikazeHand(p) ==
    /\ Len(hand[p]) = 4
    /\ Count(HandValues(p), 12) >= 2
    /\ Count(HandValues(p), 13) >= 2

RoundScored == pc = "PLAYING" /\ pc' = "ROUND_END"

\* C6: when a player ends the round with a Kamikaze hand, that player's round
\* score is 0 and every other player's is 50, and the game scores grow by
\* exactly these amounts, whoever called Kabo.
C6_KamikazeOverride ==
    [][RoundScored =>
          \A k \in 1..numPlayers :
             IsKamikazeHand(k) =>
                \A p \in 1..numPlayers :
                   LET amount == IF p = k THEN 0 ELSE 50
                   IN  /\ round_scores'[p] = amount
                       /\ players_game_score'[p] =
                              players_game_score[p] + amount]_vars

HandSum(p) == SumSeq(HandValues(p))

\* the round score of p by the Kabo rule
KaboRule(p) ==
    IF ~ called_kabo[p] THEN HandSum(p)
    ELSE IF \A q \in 1..numPlayers \ {p} : HandSum(p) <= HandSum(q)
    THEN 0
    ELSE HandSum(p) + 10

\* C7: without Kamikaze, a player who did not call Kabo scores the hand sum;
\* the caller scores 0 when no other hand sum is lower, hand sum + 10
\* otherwise.  [1,2] against [5,5] gives 0 and 10, [9,9] against [1,1]
\* gives 28 and 2.
C7_KaboScoring ==
    [][(RoundScored /\ \A k \in 1..numPlayers : ~ IsKamikazeHand(k)) =>
          /\ \A p \in 1..numPlayers :
                /\ round_scores'[p] = KaboRule(p)
                /\ players_game_score'[p] =
                       players_game_score[p] + KaboRule(p)
          /\ (numPlayers = 2 /\ called_kabo[1]
                /\ HandValues(1) = <<1, 2>> /\ HandValues(2) = <<5, 5>>) =>
                (round_scores'[1] = 0 /\ round_scores'[2] = 10)
          /\ (numPlayers = 2 /\ called_kabo[1]
                /\ HandValues(1) = <<9, 9>> /\ HandValues(2) = <<1, 1>>) =>
                (round_scores'[1] = 28 /\ round_scores'[2] = 2)]_vars

\* a Kabo caller tied with the lowest other hand has scored 0
C7_Witness ==
    /\ pc = "ROUND_END"
    /\ \A k \in 1..numPlayers : ~ IsKamikazeHand(k)
    /\ \E p \in 1..numPlayers :
          /\ called_kabo[p]
          /\ \E q \in 1..numPlayers \ {p} : HandSum(q) = HandSum(p)
          /\ \A q \in 1..numPlayers \ {p} : HandSum(q) >= HandSum(p)
          /\ round_scores[p] = 0
          /\ players_game_score[p] = 0

\* C8: a failed multi-exchange of k cards keeps every hand card in place,
\* makes the selected cards publicly visible, appends the drawn card, and
\* for k >= 3 with a non-empty deck appends one face-down card from the deck;
\* otherwise no penalty card is drawn.  The discard pile receives nothing.
C8_FailedMultiExchange ==
    [][(TurnTaken /\ last'.kind = "failed") =>
          LET p == last'.actor
              k == Len(last'.sel)
              fromDeck == last'.play # "HIT_DISCARD_PILE"
              deck1 == IF fromDeck THEN Pop(main_deck) ELSE main_deck
              n == Len(hand[p])
          IN  /\ SubSeq(hand'[p], 1, n) = hand[p]
              /\ \A x \in DOMAIN last'.sel :
                    hand[p][last'.sel[x] + 1] \in publicly_visible'
              /\ hand'[p][n + 1] = last'.drawn
              /\ IF k >= 3 /\ deck1 # <<>>
                 THEN /\ Len(hand'[p]) = n + 2
                      /\ hand'[p][n + 2] = Top(deck1)
                      /\ main_deck' = Pop(deck1)
                      /\ Top(deck1) \notin publicly_visible'
                      /\ Top(deck1) \notin known_to_owner'
                 ELSE /\ Len(hand'[p]) = n + 1
                      /\ main_deck' = deck1
              /\ discard_pile' =
                    IF fromDeck THEN discard_pile ELSE Pop(discard_pile)
              /\ \A q \in 1..numPlayers \ {p} : hand'[q] = hand[q]]_vars

\* three mismatched cards were attempted and the penalty card was drawn
C8_Witness ==
    /\ last.kind = "failed"
    /\ Len(last.sel) = 3
    /\ Len(hand[last.actor]) = CARDS_PER_PLAYER + 2
    /\ hand[last.actor][CARDS_PER_PLAYER + 1] = last.drawn

AllCards ==
    Range(main_deck) \cup Range(discard_pile)
        \cup UNION {Range(hand[p]) : p \in 1..numPlayers}

\* C9: a Swap exchanges the two chosen cards between the two hands and
\* leaves every other position of every hand, all hand sizes, the set of
\* cards and every value as they were; deck and discard pile are as the draw
\* and the discarding of the effect card left them.
C9_SwapFrame ==
    [][(TurnTaken /\ last'.kind = "swap") =>
          LET a == last'.actor
              o == last'.opp
              i == last'.i + 1
              j == last'.j + 1
          IN  /\ a # o
              /\ \A p \in 1..numPlayers : Len(hand'[p]) = Len(hand[p])
              /\ hand'[a][i] = hand[o][j]
              /\ hand'[o][j] = hand[a][i]
              /\ \A p \in 1..numPlayers : \A x \in DOMAIN hand[p] :
                    (<<p, x>> \notin {<<a, i>>, <<o, j>>}) =>
                        hand'[p][x] = hand[p][x]
              /\ AllCards' = AllCards
              /\ TotalCards' = TotalCards
              /\ value' = value
              /\ main_deck' = Pop(main_deck)
              /\ discard_pile' = Append(discard_pile, Top(main_deck))]_vars

\* a Swap has exchanged two cards of different values
C9_Witness ==
    /\ last.kind = "swap"
    /\ err = "none"
    /\ value[hand[last.actor][last.i + 1]]
          # value[hand[last.opp][last.j + 1]]

\* C10: right after a round is constructed every player holds 4 cards, the
\* discard pile holds one publicly visible card that is in no hand, and the
\* deck holds 52 - 4N - 1 cards.
C10_Dealing ==
    last.kind = "deal" =>
       /\ \A p \in 1..numPlayers : Len(hand[p]) = 4
       /\ Len(discard_pile) = 1
       /\ discard_pile[1] \in publicly_visible
       /\ \A p \in 1..numPlayers : discard_pile[1] \notin Range(hand[p])
       /\ Len(main_deck) = 52 - 4 * numPlayers - 1

\* a round of four players was dealt
C10_Witness ==
    /\ last.kind = "deal"
    /\ numPlayers = 4
    /\ Len(main_deck) = 35

\* the scores were read after a round
ScoresChecked == pc = "ROUND_END" /\ pc' # "ROUND_END"

\* C11: after every round: a score above 100 ends the match; a player at
\* exactly 100 for the first time gets 50 and does not end the match; a
\* player at exactly 100 who was snapped before ends the match; otherwise
\* another round is played.
C11_MatchTermination ==
    [][ScoresChecked =>
          LET over == \E p \in 1..numPlayers : players_game_score[p] > 100
              again == \E p \in 1..numPlayers :
                          players_game_score[p] = 100 /\ matched_100[p]
          IN  /\ (over \/ again) <=> (pc' = "GAME_OVER")
              /\ ~ (over \/ again) <=> (pc' = "INIT_ROUND")
              /\ \A p \in 1..numPlayers :
                    IF players_game_score[p] = 100 /\ ~ matched_100[p]
                    THEN /\ players_game_score'[p] = 50
                         /\ matched_100'[p]
                    ELSE /\ players_game_score'[p] = players_game_score[p]
                         /\ matched_100'[p] = matched_100[p]]_vars

\* C12: a turn that takes the top of the discard pile is only executed
\* with a non-empty pile: the pop does not fail and the card taken is the
\* pile's top.
C12_DrawDiscardNonEmpty ==
    [][(TurnTaken /\ last'.play = "HIT_DISCARD_PILE") =>
          /\ discard_pile # <<>>
          /\ err' = "none"
          /\ last'.drawn = Top(discard_pile)
          /\ last'.kind # "crash"]_vars

\* the pile's only card was taken and a failed exchange put nothing back:
\* the next turn starts with an empty pile
C12_Witness ==
    /\ last.play = "HIT_DISCARD_PILE"
    /\ last.kind = "failed"
    /\ discard_pile = <<>>
    /\ pc = "PLAYING"
    /\ ENABLED PerformTurnEmptyPile

\* C13: an effect is resolved only for a card drawn from the deck that has
\* an effect; the decision EFFECT is never taken for a card without effect;
\* a card taken from the discard pile triggers no effect and goes into the
\* keep/exchange of cards.
C13_EffectOnlyForEffectCards ==
    [][TurnTaken =>
          /\ last'.kind \in {"peak", "spy", "swap"} =>
                /\ last'.play # "HIT_DISCARD_PILE"
                /\ last'.drawn = Top(main_deck)
                /\ CARD_EFFECTS[value[last'.drawn]] # "None"
          /\ last'.decision = "EFFECT" =>
                CARD_EFFECTS[value[last'.drawn]] # "None"
          /\ last'.play = "HIT_DISCARD_PILE" =>
                /\ last'.kind \in {"exchange", "failed"}
                /\ last'.decision # "EFFECT"]_vars

\* C14: when the decision on the drawn card is none of KEEP, DISCARD and
\* EFFECT the turn fails with an error, and the drawn card is still in the
\* deck, in a hand or on the discard pile.
C14_DecisionRevalidated ==
    [][(TurnTaken /\ last'.drawn # None /\ last'.play # "HIT_DISCARD_PILE"
           /\ last'.decision \notin MAIN_DECK_CARD_DECISIONS) =>
          /\ err' # "none"
          /\ last'.drawn \in AllCards']_vars

NoRepeats(s) == \A a, b \in DOMAIN s : a # b => s[a] # s[b]

\* C15: in an exchange the selected positions are distinct positions of the
\* own hand and the drawn card is placed into one of the positions just
\* vacated (or declined); anything else is rejected with an error; no card
\* that remains in the hand is overwritten and no card is put on the
\* discard pile twice.
C15_ExchangeRevalidated ==
    [][(TurnTaken /\ last'.kind = "exchange") =>
          LET p == last'.actor
              sel == last'.sel
              pos == last'.i
              h == hand[p]
              valid == /\ NoRepeats(sel)
                       /\ \A k \in DOMAIN sel : sel[k] \in 0..(Len(h) - 1)
                       /\ pos \in {Decline} \cup Range(sel)
          IN  /\ ~ valid => err' # "none"
              /\ \A k \in DOMAIN h :
                    (k - 1) \notin Range(sel) => h[k] \in Range(hand'[p])
              /\ NoRepeats(discard_pile')]_vars

\* C16: after every completed turn every hand is a sequence of cards
\* without a hole, also after a consistent exchange in which the drawn card
\* was not placed: the drawn card is then on the discard pile and the
\* vacated positions are closed up.
C16_NoHoles ==
    /\ err = "none" => HandsWhole
    /\ (err = "none" /\ last.kind = "exchange" /\ last.i = Decline) =>
          /\ Top(discard_pile) = last.drawn
          /\ last.drawn \notin Range(hand[last.actor])


\* C17: a card taken from the discard pile that ends the turn in the
\* player's hand is publicly visible; a card drawn from the deck and kept
\* in the hand is not publicly visible and is known to its owner.
C17_KeptCardVisibility ==
    (/\ err = "none"
     /\ last.kind \in {"exchange", "failed"}
     /\ last.drawn \in Range(hand[last.actor])) =>
        IF last.play = "HIT_DISCARD_PILE"
        THEN last.drawn \in publicly_visible
        ELSE /\ last.drawn \notin publicly_visible
             /\ last.drawn \in known_to_owner

\* a deck card has just been kept face down while another player holds,
\* face up, a card taken from the discard pile
C17_Witness ==
    /\ err = "none"
    /\ last.kind = "exchange"
    /\ last.play = "HIT_DECK"
    /\ last.drawn \in Range(hand[last.actor])
    /\ last.drawn \in known_to_owner \ publicly_visible
    /\ \E q \in 1..numPlayers \ {last.actor} :
          \E c \in Range(hand[q]) :
              c \in publicly_visible \cap known_to_owner


\* the phases of a round as positions of the match loop: DEALT is the
\* round constructed (PEEKING not yet left), SCORING and DONE are the end
\* of start_playing (ROUND_END)
PhaseSuccessors(phase) ==
    CASE phase = "INIT_ROUND" -> {"PEEKING"}
      [] phase = "PEEKING"    -> {"PEEKING", "PLAYING"}
      [] phase = "PLAYING"    -> {"PLAYING", "ROUND_END", "ERROR"}
      [] phase = "ROUND_END"  -> {"INIT_ROUND", "GAME_OVER"}
      [] OTHER                -> {}

\* C18: the phases of a round follow each other in the order dealt,
\* peeking, playing, scoring, done: cards are dealt only when a round is
\* constructed, the initial peek happens only before the first turn, turns
\* are played only between the peek and the scoring, and the game scores
\* change by the round's scores in the one step that ends the turn loop
\* (and by nothing else before the scores are checked after the round).
C18_PhaseOrder ==
    [][ /\ pc' # pc => pc' \in PhaseSuccessors(pc)
        /\ (last'.kind = "deal" /\ last' # last) => pc = "INIT_ROUND"
        /\ pc # "INIT_ROUND" => Len(main_deck') <= Len(main_deck)
        /\ (last'.kind = "peek" /\ last' # last) => pc = "PEEKING"
        /\ pc = "PEEKING" =>
              /\ hand' = hand /\ main_deck' = main_deck
              /\ discard_pile' = discard_pile /\ turns' = turns
        /\ turns' # turns =>
              /\ pc = "PLAYING" /\ pc' \in {"PLAYING", "ERROR"}
              /\ last'.kind \notin {"deal", "peek", "score", "standings"}
        /\ pc \in {"ROUND_END", "GAME_OVER"} =>
              /\ hand' = hand /\ main_deck' = main_deck
              /\ discard_pile' = discard_pile /\ round_scores' = round_scores
        /\ RoundScored =>
              /\ last'.kind = "score"
              /\ CheckKamikadze = None =>
                    \A p \in 1..numPlayers :
                        players_game_score'[p] =
                            players_game_score[p] + round_scores'[p]
              /\ CheckKamikadze # None =>
                    \A p \in 1..numPlayers :
                        players_game_score'[p] = players_game_score[p] +
                            (IF p = CheckKamikadze THEN 0
                             ELSE KAMIKADZE_PENALTY)
        /\ (~ RoundScored /\ pc # "ROUND_END") =>
              players_game_score' = players_game_score
      ]_vars

\* a second round has been dealt and peeked at after the first one was
\* played and scored
C18_Witness ==
    /\ rounds = 2
    /\ pc = "PLAYING"
    /\ \E p \in 1..numPlayers : players_game_score[p] > 0
    /\ \A p \in 1..numPlayers : Len(hand[p]) = CARDS_PER_PLAYER


\* the roster 1..n rotated to start at position k + 1
Rotation(n, k) == [i \in 1..n |-> ((k + i - 1) % n) + 1]

\* C19: the player list of every round is a rotation of the fixed roster,
\* and the player who takes the first turn of a round is not the one who
\* took the first turn of the round before.
C19_StartPlayerRotates ==
    [][ (pc = "INIT_ROUND" /\ pc' = "PEEKING") =>
           /\ \E k \in 0..(numPlayers - 1) :
                 players' = Rotation(numPlayers, k)
           /\ rounds >= 1 => players'[1] # players[1]
      ]_vars


-----------------------------------------------------------------------------
(* The round-end summary: Game._show_round_end_to_players starts one       *)
(* thread per WebPlayer running wait_for_round_end_confirmation and joins  *)
(* each for JOIN_TIMEOUT seconds; the thread waits GET_TIMEOUT seconds for *)
(* an item of the player's response queue.  The next round's              *)
(* pick_cards_to_see reads the same queue in the game thread.              *)

WebPlayers == SUBSET (1..3) \ {{}}

InitConfirm ==
    /\ MatchStart
    /\ \A p \in 1..numPlayers :
          /\ players_game_score[p] < TARGET_POINT_VALUE
          /\ ~ matched_100[p]
    /\ start_player_index = 0
    /\ web \in {w \in WebPlayers : w \subseteq 1..numPlayers}
    /\ summary = "idle"
    /\ joining = 0
    /\ join_started = 0
    /\ confirm = [p \in 1..numPlayers |-> "none"]
    /\ request = [p \in 1..numPlayers |-> "none"]
    /\ response_queue = [p \in 1..numPlayers |-> <<>>]
    /\ peek_wait = [p \in 1..numPlayers |-> "none"]
    /\ clock = 0
    /\ RoomIdle

\* the WebPlayers after p in Game.players, the order of the thread list
LaterWeb(p) == {q \in web : q > p}

\* Game._show_round_end_to_players up to the first t.join
ShowRoundEnd ==
    /\ pc = "ROUND_END"
    /\ summary = "idle"
    /\ web # {}
    /\ confirm' = [p \in 1..numPlayers |->
                      IF p \in web THEN "waiting" ELSE "none"]
    /\ request' = [p \in 1..numPlayers |->
                      IF p \in web THEN "round_end_confirm" ELSE request[p]]
    /\ summary' = "joining"
    /\ joining' = MinOf(web)
    /\ join_started' = 0
    /\ clock' = 0
    /\ UNCHANGED <<roomVars, gameVars, called_kabo, hand, players, loopVars,
                   main_deck,
                   discard_pile, round_scores, peeker, cardVars, pc, err,
                   last, turns, since_kabo, knew, web, response_queue,
                   peek_wait>>

JoinExpired == summary = "joining" /\ clock - join_started >= JOIN_TIMEOUT
GetExpired(p) == confirm[p] = "waiting" /\ clock >= GET_TIMEOUT

\* the times at which a waiting join or timed get gives up
Deadlines ==
    (IF summary = "joining" THEN {join_started + JOIN_TIMEOUT} ELSE {})
    \cup (IF \E p \in web : confirm[p] = "waiting" THEN {GET_TIMEOUT} ELSE {})

\* time passes until the next timeout is due; no timeout is overdue
Tick ==
    /\ Deadlines # {}
    /\ ~ JoinExpired
    /\ \A p \in web : ~ GetExpired(p)
    /\ clock' = MinOf(Deadlines)
    /\ UNCHANGED <<roomVars, gameVars, called_kabo, hand, players, loopVars,
                   main_deck,
                   discard_pile, round_scores, peeker, cardVars, pc, err,
                   last, turns, since_kabo, knew, web, summary, joining,
                   join_started, confirm, request, response_queue,
                   peek_wait>>

\* WebPlayer.submit_response, called by the UI for the request it shows;
\* an acknowledgement of the summary is followed while the summary is up
SubmitResponse(p) ==
    /\ p \in web
    /\ request[p] \in {"round_end_confirm", "pick_cards_to_see"}
    /\ request[p] = "round_end_confirm" =>
          confirm[p] = "waiting" /\ pc = "ROUND_END"
    /\ response_queue' = [response_queue EXCEPT ![p] = Append(@, request[p])]
    /\ request' = [request EXCEPT ![p] = "none"]
    /\ UNCHANGED <<roomVars, gameVars, called_kabo, hand, players, loopVars,
                   main_deck,
                   discard_pile, round_scores, peeker, cardVars, pc, err,
                   last, turns, since_kabo, knew, web, summary, joining,
                   join_started, confirm, peek_wait, clock>>

\* wait_for_round_end_confirmation: self._response_queue.get(timeout=60)
\* returns an item
ConfirmGet(p) ==
    /\ confirm[p] = "waiting"
    /\ response_queue[p] # <<>>
    /\ response_queue' = [response_queue EXCEPT ![p] = Tail(@)]
    /\ confirm' = [confirm EXCEPT ![p] = "ended"]
    /\ UNCHANGED <<roomVars, gameVars, called_kabo, hand, players, loopVars,
                   main_deck,
                   discard_pile, round_scores, peeker, cardVars, pc, err,
                   last, turns, since_kabo, knew, web, summary, joining,
                   join_started, request, peek_wait, clock>>

\* wait_for_round_end_confirmation: queue.Empty after GET_TIMEOUT seconds
ConfirmTimeout(p) ==
    /\ GetExpired(p)
    /\ response_queue[p] = <<>>
    /\ confirm' = [confirm EXCEPT ![p] = "ended"]
    /\ UNCHANGED <<roomVars, gameVars, called_kabo, hand, players, loopVars,
                   main_deck,
                   discard_pile, round_scores, peeker, cardVars, pc, err,
                   last, turns, since_kabo, knew, web, summary, joining,
                   join_started, request, response_queue, peek_wait, clock>>

\* Game._show_round_end_to_players: t.join(timeout=35) returns, because the
\* thread has ended or the timeout has passed
JoinReturns ==
    /\ summary = "joining"
    /\ confirm[joining] = "ended" \/ JoinExpired
    /\ IF LaterWeb(joining) = {}
       THEN /\ summary' = "shown"
            /\ joining' = 0
            /\ join_started' = join_started
       ELSE /\ summary' = summary
            /\ joining' = MinOf(LaterWeb(joining))
            /\ join_started' = clock
    /\ UNCHANGED <<roomVars, gameVars, called_kabo, hand, players, loopVars,
                   main_deck,
                   discard_pile, round_scores, peeker, cardVars, pc, err,
                   last, turns, since_kabo, knew, web, confirm, request,
                   response_queue, peek_wait, clock>>

\* WebPlayer.pick_cards_to_see up to _wait_for_response
EmitPeekRequest ==
    /\ pc = "PEEKING"
    /\ players[peeker] \in web
    /\ peek_wait[players[peeker]] = "none"
    /\ request' = [request EXCEPT ![players[peeker]] = "pick_cards_to_see"]
    /\ peek_wait' = [peek_wait EXCEPT ![players[peeker]] = "blocked"]
    /\ UNCHANGED <<roomVars, gameVars, called_kabo, hand, players, loopVars,
                   main_deck,
                   discard_pile, round_scores, peeker, cardVars, pc, err,
                   last, turns, since_kabo, knew, web, summary, joining,
                   join_started, confirm, response_queue, clock>>

\* WebPlayer._wait_for_response returns an item in the game thread; the
\* acknowledgement of a summary is no list and Player.check_own_cards
\* raises TypeError for it
WaitForResponse ==
    /\ pc = "PEEKING"
    /\ peek_wait[players[peeker]] = "blocked"
    /\ response_queue[players[peeker]] # <<>>
    /\ response_queue' = [response_queue EXCEPT ![players[peeker]] = Tail(@)]
    /\ peek_wait' = [peek_wait EXCEPT ![players[peeker]] = "returned"]
    /\ IF Head(response_queue[players[peeker]]) = "pick_cards_to_see"
       THEN UNCHANGED <<pc, err, last>>
       ELSE /\ pc' = "ERROR"
            /\ err' = "TypeError"
            /\ last' = [NoTurn EXCEPT !.kind = "crash",
                                      !.actor = players[peeker]]
    /\ UNCHANGED <<roomVars, gameVars, called_kabo, hand, players, loopVars,
                   main_deck,
                   discard_pile, round_scores, peeker, cardVars, turns,
                   since_kabo, knew, web, summary, joining, join_started,
                   confirm, request, clock>>

\* the peek of a player once pick_cards_to_see has returned
PeekAnswered ==
    \/ players[peeker] \notin web
    \/ peek_wait[players[peeker]] = "returned"

ConfirmNext ==
    \/ ShowRoundEnd
    \/ Tick
    \/ \E p \in 1..numPlayers : SubmitResponse(p)
    \/ \E p \in 1..numPlayers : ConfirmGet(p)
    \/ \E p \in 1..numPlayers : ConfirmTimeout(p)
    \/ JoinReturns
    \/ summary = "shown" /\ AfterRound
    \/ \E deck0 \in Shuffles : InitRound(deck0)
    \/ EmitPeekRequest
    \/ WaitForResponse
    \/ \E which \in PeekChoices : PeekAnswered /\ LetPlayerSeeCards(which)

SpecConfirm == InitConfirm /\ [][ConfirmNext]_vars

\* C20: when a web participant does not answer the round-end
\* confirmation, the match loop goes on to the score check and the next
\* round after a bounded wait, and goes on as it does after an
\* acknowledgement: what the participant answers to the next round's
\* request is returned to the game thread that asked.
C20_ConfirmationNeverBlocks ==
    [][ /\ summary' = "joining" =>
              clock' <= JOIN_TIMEOUT * Cardinality(web)
        /\ \A p \in web :
              (/\ response_queue[p] # <<>>
               /\ Head(response_queue[p]) = "pick_cards_to_see"
               /\ response_queue'[p] = Tail(response_queue[p])) =>
                  peek_wait'[p] = "returned"
      ]_vars


-----------------------------------------------------------------------------
(* Admission to a roster: GameRoom.add_player for the web lobby, and      *)
(* Server.threaded_client for socket clients.                              *)

\* everything but the lobby: no match runs while participants join
matchVars == <<gameVars, called_kabo, hand, players, loopVars, main_deck,
               discard_pile, round_scores, peeker, cardVars, pc, err, last,
               turns, since_kabo, knew, web, summary, joining, join_started,
               confirm, request, response_queue, peek_wait, clock>>

\* the web lobby and the socket server are two front ends; a process runs
\* one of them
NoClient == \A c \in 1..MaxClients : clients[c].at = "accepted"

Names == {"ann", "Ann", "bob", "cy", "dee"}

\* str.upper
Upper(name) ==
    CASE name \in {"ann", "Ann"} -> "ANN"
      [] name = "bob" -> "BOB"
      [] name = "cy"  -> "CY"
      [] OTHER        -> "DEE"

MaxPlayersChoices == {2, 3}

\* create_room: GameRoom.__init__
CreateRoom(mp, ai) ==
    /\ room_state = "none"
    /\ NoClient
    /\ room_state' = "waiting"
    /\ max_players' = mp
    /\ ai_count' = ai
    /\ room_players' = <<>>
    /\ UNCHANGED <<join_error, client_names, clients, matchVars, web_player,
                   starters, session, connected, roster_at_start>>

\* GameRoom.add_player, under self._lock
AddPlayer(name) ==
    /\ room_state # "none"
    /\ LET uname == Upper(name)
       IN  IF room_state # "waiting"
           THEN /\ join_error' = "Game already started"
                /\ UNCHANGED room_players
           ELSE IF Len(room_players) >= max_players
           THEN /\ join_error' = "Room is full"
                /\ UNCHANGED room_players
           ELSE IF uname \in Range(room_players)
           THEN /\ join_error' = "Name is already taken"
                /\ UNCHANGED room_players
           ELSE /\ join_error' = "none"
                /\ room_players' = Append(room_players, uname)
    /\ UNCHANGED <<room_state, max_players, client_names, clients,
                   matchVars, startVars>>

\* GameRoom.remove_player: self.players.pop(uname, None)
RemovePlayer(name) ==
    /\ room_state # "none"
    /\ Upper(name) \in Range(room_players)
    /\ room_players' = SelectSeq(room_players, LAMBDA n : n # Upper(name))
    /\ web_player' = web_player \ {Upper(name)}
    /\ join_error' = "none"
    /\ UNCHANGED <<room_state, max_players, client_names, clients,
                   matchVars, ai_count, starters, session, connected,
                   roster_at_start>>

\* GameRoom.start_game up to the creation of the session
StartGame ==
    /\ room_state = "waiting"
    /\ room_state' = "playing"
    /\ join_error' = "none"
    /\ UNCHANGED <<max_players, room_players, client_names, clients,
                   matchVars, startVars>>

\* bytes == str in Python 3: never equal
BytesEqualsStr(b, str) == FALSE

\* connected_player_name in self.client_names, for the bytes read from the
\* socket and a list of str
InClientNames(b, names) ==
    \E k \in DOMAIN names : BytesEqualsStr(b, names[k])

\* Server.threaded_client up to connected_socket.recv: the name arrives
ThreadedClientRecv(c, name) ==
    /\ room_state = "none"
    /\ clients[c].at = "accepted"
    /\ clients' = [clients EXCEPT ![c] = [at |-> "received", name |-> name]]
    /\ UNCHANGED <<room_state, max_players, room_players, join_error,
                   client_names, matchVars, startVars>>

\* Server.threaded_client: the membership test and the append
ThreadedClientAdmit(c) ==
    /\ clients[c].at = "received"
    /\ IF ~ InClientNames(clients[c].name, client_names)
       THEN /\ client_names' = Append(client_names, clients[c].name)
            /\ clients' = [clients EXCEPT ![c].at = "joined"]
       ELSE /\ clients' = [clients EXCEPT ![c].at = "ValueError"]
            /\ UNCHANGED client_names
    /\ UNCHANGED <<room_state, max_players, room_players, join_error,
                   matchVars, startVars>>

JoinNext ==
    \/ \E mp \in MaxPlayersChoices : CreateRoom(mp, 0)
    \/ \E name \in Names : AddPlayer(name)
    \/ \E name \in Names : RemovePlayer(name)
    \/ StartGame
    \/ \E c \in 1..MaxClients, name \in Names : ThreadedClientRecv(c, name)
    \/ \E c \in 1..MaxClients : ThreadedClientAdmit(c)

SpecJoin == Init /\ [][JoinNext]_vars

\* the names of a roster, case-normalised
Normalised(names) == [k \in DOMAIN names |-> Upper(names[k])]

\* C21: a participant is admitted only if its case-normalised name is not
\* yet in the roster and the roster is not full: no roster ever holds two
\* participants with the same normalised name or more than the maximum
\* number of players, and a join that is rejected leaves the roster as it
\* was.
C21_Admission ==
    [][ /\ NoRepeats(room_players')
        /\ room_state' # "none" => Len(room_players') <= max_players'
        /\ join_error' # "none" => room_players' = room_players
        /\ NoRepeats(Normalised(client_names'))
        /\ \A c \in 1..MaxClients :
              clients'[c].at = "ValueError" => client_names' = client_names
      ]_vars


C23_ResponseMatchesRequest ==
    [][ \A p \in web :
           (/\ response_queue[p] # <<>>
            /\ response_queue'[p] = Tail(response_queue[p])) =>
               IF peek_wait'[p] # peek_wait[p]
               THEN Head(response_queue[p]) = "pick_cards_to_see"
               ELSE Head(response_queue[p]) = "round_end_confirm"
      ]_vars


\* C24: whenever a turn of the playing phase is about to start, the discard
\* pile is not empty.
C24_PileNonEmptyAtTurnStart ==
    (/\ pc = "PLAYING"
     /\ LoopContinues(main_deck, kabo_counter)) => discard_pile # <<>>


\* C25: a consistent exchange of k >= 1 selected hand cards with a free
\* position chosen leaves the k selected cards as the k newest cards of the
\* discard pile, all publicly visible, and the drawn card in the hand; the
\* hand has its old size - k + 1, and the cards that stayed keep their
\* order with the drawn card where the chosen vacated position was.
C25_ConsistentExchange ==
    [][ (/\ turns' = turns + 1
         /\ err' = "none"
         /\ last'.kind = "exchange"
         /\ last'.i # Decline) =>
           LET a == last'.actor
               old == hand[a]
               k == Len(last'.sel)
               selected == {old[last'.sel[j] + 1] : j \in 1..k}
               staying == SelectSeq(old, LAMBDA c : c \notin selected)
               before == Cardinality({x \in 1..last'.i :
                                         old[x] \notin selected})
               n == Len(discard_pile')
           IN  /\ k >= 1
               /\ {discard_pile'[x] : x \in (n - k + 1)..n} = selected
               /\ selected \subseteq publicly_visible'
               /\ Len(hand'[a]) = Len(old) - k + 1
               /\ hand'[a][before + 1] = last'.drawn
               /\ SelectSeq(hand'[a], LAMBDA c : c # last'.drawn) = staying
      ]_vars

\* two cards of one value were exchanged for the drawn card, which was put
\* in the second of the vacated places and stands first after compaction
C25_Witness ==
    /\ err = "none"
    /\ last.kind = "exchange"
    /\ Len(last.sel) = 2
    /\ last.i = 1
    /\ hand[last.actor][1] = last.drawn
    /\ Len(hand[last.actor]) = CARDS_PER_PLAYER - 1
    /\ Top(discard_pile) \notin Range(hand[last.actor])


\* C26: in one turn hand cards go to the discard pile only if all cards
\* selected in that turn have the same value; when the selection holds two
\* different values, no hand card is discarded in that turn.
C26_ConsistencyEnforced ==
    [][ turns' = turns + 1 =>
           LET a == last'.actor
               old == hand[a]
               chosen == {old[last'.sel[j] + 1] :
                             j \in {x \in DOMAIN last'.sel :
                                       last'.sel[x] < Len(old)}}
               discarded == (Range(old) \cap Range(discard_pile'))
                               \ Range(discard_pile)
           IN  /\ discarded # {} =>
                     /\ last'.kind \in {"exchange", "failed", "crash"}
                     /\ discarded \subseteq chosen
                     /\ \A c, d \in chosen : value[c] = value[d]
               /\ (last'.kind \in {"exchange", "failed"}
                   /\ \E c, d \in chosen : value[c] # value[d]) =>
                     /\ discarded = {}
                     /\ \A c \in chosen : status'[c] = "HAND"
      ]_vars

\* a selection of cards with two different values has just been refused:
\* the selected cards are still in the hand, face up
C26_Witness ==
    /\ err = "none"
    /\ last.kind = "failed"
    /\ Len(last.sel) >= 2
    /\ \E j, k \in DOMAIN last.sel :
          value[hand[last.actor][last.sel[j] + 1]]
             # value[hand[last.actor][last.sel[k] + 1]]
    /\ \A j \in DOMAIN last.sel :
          /\ hand[last.actor][last.sel[j] + 1] \in publicly_visible
          /\ hand[last.actor][last.sel[j] + 1] \notin Range(discard_pile)
    /\ last.drawn \in Range(hand[last.actor])


\* the player who called Kabo in this round
KaboCaller == CHOOSE p \in 1..numPlayers : called_kabo[p]

\* the player s places after p in the round's player list
PlayerAfter(p, s) ==
    players[((IndexOf(players, p) - 1 + s) % Len(players)) + 1]

\* C27: after a Kabo call the caller takes no further turn in the round
\* and the other players take one further turn each, in the order of the
\* round starting with the player after the caller; the round is scored
\* after the last of them, or earlier when the deck is empty.
C27_OneMoreTurnEach ==
    [][ /\ (turns' = turns + 1 /\ since_kabo >= 0) =>
              /\ last'.actor # KaboCaller
              /\ last'.actor = PlayerAfter(KaboCaller, since_kabo + 1)
              /\ since_kabo + 1 <= numPlayers - 1
        /\ (RoundScored /\ since_kabo >= 0) =>
              (since_kabo = numPlayers - 1 \/ main_deck = <<>>)
      ]_vars

\* three players: the first called Kabo, the second and then the third
\* took their turn, and no further turn can start
C27_Witness ==
    /\ pc = "PLAYING"
    /\ numPlayers = 3
    /\ called_kabo[players[1]]
    /\ since_kabo = 2
    /\ last.actor = players[3]
    /\ main_deck # <<>>
    /\ ~ LoopContinues(main_deck, kabo_counter)


\* C28: the turns of a round are taken one after the other in the cyclic
\* order of the round's player list: the first by the first player of the
\* list, each later one by the player after the one who took the turn
\* before, a Kabo call included.
C28_CyclicTurnOrder ==
    [][ turns' = turns + 1 =>
           /\ pc = "PLAYING"
           /\ last'.actor = current_player
           /\ IF last.kind = "peek"
              THEN last'.actor = players[1]
              ELSE last'.actor = PlayerAfter(last.actor, 1)
      ]_vars

\* two players, the second of the roster first in the round: the other
\* called Kabo in the second turn of the round and the third turn was taken
\* by the first player of the round again
C28_Witness ==
    /\ pc = "PLAYING"
    /\ numPlayers = 2
    /\ turns = 3
    /\ players[1] # 1
    /\ called_kabo[players[2]]
    /\ last.actor = players[1]
    /\ last.kind # "kabo"

\* the turn just taken drew its card from the main deck
DeckDrawTurn == last'.play \in {"HIT_DECK", "KABO"} /\ last'.kind # "kabo"

\* C29: no card is popped from an empty main deck.  A turn is taken only
\* while the deck holds a card and the Kabo countdown is not zero; a turn
\* that draws from the deck (a "KABO" answer after Kabo was called
\* included) takes the card that was on top and raises no IndexError; a
\* failed exchange raises nothing, draws its penalty card from a deck that
\* still holds one, and leaves an emptied deck alone.
C29_NoPopFromEmptyDeck ==
    [][ turns' = turns + 1 =>
           /\ main_deck # <<>>
           /\ kabo_counter # 0
           /\ DeckDrawTurn =>
                 /\ last'.drawn = Top(main_deck)
                 /\ err' # "IndexError"
                 /\ Len(main_deck') \in
                       {Len(main_deck) - 1, Len(main_deck) - 2}
           /\ last'.kind = "failed" =>
                 LET left == IF DeckDrawTurn THEN Pop(main_deck)
                             ELSE main_deck
                     penalty == Len(last'.sel) >= 3 /\ left # <<>>
                 IN  /\ err' = "none"
                     /\ main_deck' = IF penalty THEN Pop(left) ELSE left
                     /\ Len(hand'[last'.actor]) =
                           Len(hand[last'.actor]) + (IF penalty THEN 2 ELSE 1)
      ]_vars

\* a failed exchange of three cards for the last card of the deck: the
\* player keeps the drawn card, no penalty card is drawn, the deck is empty
C29_Witness ==
    /\ last.kind = "failed"
    /\ last.play = "HIT_DECK"
    /\ Len(last.sel) >= 3
    /\ main_deck = <<>>
    /\ err = "none"
    /\ Len(hand[last.actor]) = 5

\* C30: for every player of a scored round, the score recorded in
\* round_scores is the amount added to the player's game score for the
\* round, in Kamikaze rounds as in ordinary ones.
C30_RoundScoresAreApplied ==
    [][RoundScored =>
          \A p \in Range(players) :
             round_scores'[p] = players_game_score'[p] - players_game_score[p]
      ]_vars

-----------------------------------------------------------------------------
(* The initial peek with the answers a remote player can give.             *)
(* NetworkPlayer.pick_cards_to_see returns response["positions"] and       *)
(* WebPlayer.pick_cards_to_see returns the queued response as they arrive. *)

\* no positions, two positions, three positions
RemotePeekChoices == { <<>>, <<1, 3>>, <<0, 1, 2>> }

PeekNext ==
    \/ \E deck0 \in Shuffles : InitRound(deck0)
    \/ \E which \in RemotePeekChoices : LetPlayerSeeCards(which)

SpecPeek == Init /\ [][PeekNext]_vars

\* one iteration of the peek loop of Round._let_players_see_cards
PeekTaken == pc = "PEEKING" /\ last'.kind = "peek"

\* C31: in PEEKING each player, in round order, gets at most 2 own cards
\* marked known_to_owner: the positions chosen, the leftmost 2 for an empty
\* choice, never more than 2 for a longer choice; no card of another
\* player, of the deck or of the discard pile changes.
C31_InitialPeek ==
    [][PeekTaken =>
          LET p == players[peeker]
              which == last'.sel
              seen == known_to_owner' \ known_to_owner
          IN  /\ last'.actor = p
              /\ Cardinality(seen) <= NUMBER_OF_CARDS_TO_SEE
              /\ seen \subseteq Range(hand[p])
              /\ which = <<>> =>
                    seen = {hand[p][i] : i \in 1..NUMBER_OF_CARDS_TO_SEE}
              /\ Len(which) \in 1..NUMBER_OF_CARDS_TO_SEE =>
                    seen = {hand[p][which[k] + 1] : k \in DOMAIN which}
              /\ known_to_owner \subseteq known_to_owner'
              /\ UNCHANGED <<hand, main_deck, discard_pile, publicly_visible,
                             known_to_other_players, status, owner, value>>
      ]_vars

\* what every effect turn does before its effect: the drawn card leaves the
\* deck and lies face up on the discard pile
EffectCardDiscarded ==
    LET drawn == Top(main_deck)
    IN  /\ last'.drawn = drawn
        /\ main_deck' = Pop(main_deck)
        /\ discard_pile' = Append(discard_pile, drawn)
        /\ status' = [status EXCEPT ![drawn] = "DISCARD_PILE"]

\* C32: resolving Peek sets known_to_owner on exactly one card of the
\* acting player's own hand and changes nothing else: no hand, no
\* publicly_visible flag of a hand card, no spy set, no owner; the effect
\* card is on the discard pile.
C32_PeekFrame ==
    [][(TurnTaken /\ last'.kind = "peak") =>
          LET a == last'.actor
              peaked_card == hand[a][last'.i + 1]
          IN  /\ a = current_player
              /\ err' = "none"
              /\ known_to_owner' = known_to_owner \cup {peaked_card}
              /\ hand' = hand
              /\ publicly_visible' = publicly_visible \cup {Top(main_deck)}
              /\ known_to_other_players' = known_to_other_players
              /\ owner' = owner
              /\ value' = value
              /\ called_kabo' = called_kabo
              /\ players_game_score' = players_game_score
              /\ EffectCardDiscarded
      ]_vars

\* a Peek at a card its owner had not seen
C32_Witness ==
    /\ last.kind = "peak"
    /\ err = "none"
    /\ hand[last.actor][last.i + 1] \in known_to_owner
    /\ <<last.actor, hand[last.actor][last.i + 1]>> \in knew
    /\ last.i \notin {1, 3}

\* C33: resolving Spy on a card of an opponent adds the acting player to
\* the spy set of that card and changes nothing else: known_to_owner, the
\* publicly_visible flags of the hand cards, every hand and every owner are
\* as before, and no other card's spy set changes.
C33_SpyFrame ==
    [][(TurnTaken /\ last'.kind = "spy") =>
          LET a == last'.actor
              o == last'.opp
              spied_card == hand[o][last'.j + 1]
          IN  /\ a = current_player
              /\ o \in Range(players) \ {a}
              /\ err' = "none"
              /\ known_to_other_players' =
                    [known_to_other_players EXCEPT
                        ![spied_card] = @ \cup {a}]
              /\ known_to_owner' = known_to_owner
              /\ publicly_visible' = publicly_visible \cup {Top(main_deck)}
              /\ hand' = hand
              /\ owner' = owner
              /\ value' = value
              /\ EffectCardDiscarded
      ]_vars

\* after a Spy the acting player is in the spy set of the spied card and of
\* no other card of that hand, and the owner has not seen the card
C33_Witness ==
    /\ last.kind = "spy"
    /\ err = "none"
    /\ LET spied_card == hand[last.opp][last.j + 1]
       IN  /\ last.actor \in known_to_other_players[spied_card]
           /\ spied_card \notin known_to_owner
           /\ \A c \in Range(hand[last.opp]) \ {spied_card} :
                 last.actor \notin known_to_other_players[c]

Holders(c) == {p \in 1..numPlayers : c \in Range(hand[p])}

\* C35: at every turn boundary a card has an owner iff it is in a hand, and
\* the owner is the player whose hand holds it; a card of the deck or of
\* the discard pile has no owner.
C35_OwnerTracksHand ==
    pc \in {"PEEKING", "PLAYING"} =>
       \A c \in DOMAIN owner :
          IF Holders(c) = {} THEN owner[c] = None
          ELSE Holders(c) = {owner[c]}

-----------------------------------------------------------------------------
(* The turn loop of Round.start_playing followed without a bound on the    *)
(* number of turns, for players who call Kabo, discard what they draw, or  *)
(* take the top of the discard pile in exchange for their first card.      *)

InitLive == RoundOnlyDealt /\ numPlayers = 2 /\ turns = Uncounted

LiveNext ==
    \/ \E which \in PeekChoices : LetPlayerSeeCards(which)
    \/ CallKabo
    \/ \E play \in ALLOWED_PLAYS : HitDeckDiscard(play)
    \/ HitDiscardPile(<<0>>, 0)
    \/ ScoreRound

\* every perform_turn returns and the loop goes on to its next iteration
SpecLive == InitLive /\ [][LiveNext]_vars /\ WF_vars(LiveNext)

\* C36: every round eventually leaves PLAYING (the deck empties or the Kabo
\* countdown expires) whatever the players choose, players who always take
\* from the discard pile and never call Kabo included; during PLAYING the
\* deck never grows.
C36_RoundTerminates ==
    /\ [](pc = "PLAYING" => <>(pc # "PLAYING"))
    /\ [][pc = "PLAYING" => Len(main_deck') <= Len(main_deck)]_vars

-----------------------------------------------------------------------------
(* GameRoom.start_game and GameSession.from_room, called by threads that   *)
(* share the GameRoom.  What runs under self._lock is one step; from_room  *)
(* runs after the lock was released.                                       *)

AiChoices == {0, 3}

\* everything but the GameRoom and the sessions started from it
lobbyVars == <<matchVars, client_names, clients>>

\* GameRoom.start_game, the block under self._lock
StartGameLocked(t) ==
    /\ room_state \notin {"none", "finished"}
    /\ starters[t].at = "idle"
    /\ IF room_state # "waiting"
       THEN /\ starters' = [starters EXCEPT ![t].at = "Game already started"]
            /\ UNCHANGED <<room_state, roster_at_start>>
       ELSE /\ room_state' = "playing"
            /\ roster_at_start' = room_players
            /\ starters' = [starters EXCEPT ![t].at = "from_room"]
    /\ UNCHANGED <<max_players, room_players, join_error, ai_count,
                   web_player, session, connected, lobbyVars>>

\* GameSession.from_room: for name, info in room.players.items() begins
FromRoomIterate(t) ==
    /\ starters[t].at = "from_room"
    /\ starters' = [starters EXCEPT ![t].at = "items",
                                    ![t].size = Len(room_players)]
    /\ UNCHANGED <<room_state, max_players, room_players, join_error,
                   ai_count, web_player, session, connected,
                   roster_at_start, lobbyVars>>

\* one step of the iterator over room.players.items(): RuntimeError when
\* the dict has changed size, else the WebPlayer of the next key is created
\* and attached, or the loop ends
FromRoomAttach(t) ==
    /\ starters[t].at = "items"
    /\ LET k == Len(starters[t].built)
       IN  IF Len(room_players) # starters[t].size
           THEN /\ starters' = [starters EXCEPT ![t].at = "RuntimeError"]
                /\ UNCHANGED web_player
           ELSE IF k < starters[t].size
           THEN /\ web_player' = web_player \cup {room_players[k + 1]}
                /\ starters' = [starters EXCEPT
                       ![t].built = Append(@, room_players[k + 1])]
           ELSE /\ starters' = [starters EXCEPT ![t].at = "Game"]
                /\ UNCHANGED web_player
    /\ UNCHANGED <<room_state, max_players, room_players, join_error,
                   ai_count, session, connected, roster_at_start, lobbyVars>>

\* GameSession.from_room: the ComputerPlayers, Game(players=players) with
\* its check of the number of players (an empty list is taken for no list
\* and the missing dict of names raises TypeError), and the start of the
\* game thread
FromRoomNewGame(t) ==
    /\ starters[t].at = "Game"
    /\ IF Len(starters[t].built) + ai_count \in ALLOWED_PLAYER_COUNTS
       THEN /\ session' = Append(session, starters[t].built)
            /\ starters' = [starters EXCEPT ![t].at = "started"]
       ELSE /\ starters' = [starters EXCEPT ![t].at =
                               IF Len(starters[t].built) + ai_count = 0
                               THEN "TypeError" ELSE "ValueError"]
            /\ UNCHANGED session
    /\ UNCHANGED <<room_state, max_players, room_players, join_error,
                   ai_count, web_player, connected, roster_at_start,
                   lobbyVars>>

\* check_game_started of a client that is not the host (the host is the
\* first to be added to the room): when the state reads
\* "playing", connect_to_room_game takes info["web_player"] and the timer
\* is deactivated
CheckGameStarted(g) ==
    /\ Upper(g) \in Range(room_players)
    /\ Upper(g) # room_players[1]
    /\ connected[g] = "waiting"
    /\ room_state = "playing"
    /\ connected' = [connected EXCEPT ![g] =
                        IF Upper(g) \in web_player THEN "WebPlayer"
                        ELSE "None"]
    /\ UNCHANGED <<room_state, max_players, room_players, join_error,
                   ai_count, web_player, starters, session, roster_at_start,
                   lobbyVars>>

StartNext ==
    \/ \E mp \in MaxPlayersChoices, ai \in AiChoices : CreateRoom(mp, ai)
    \/ \E g \in Guests : AddPlayer(g)
    \/ \E g \in Guests : RemovePlayer(g)
    \/ \E t \in 1..MaxStarters : StartGameLocked(t)
    \/ \E t \in 1..MaxStarters : FromRoomIterate(t)
    \/ \E t \in 1..MaxStarters : FromRoomAttach(t)
    \/ \E t \in 1..MaxStarters : FromRoomNewGame(t)
    \/ \E g \in Guests : CheckGameStarted(g)

SpecStart == Init /\ [][StartNext]_vars

PastTheCheck ==
    {t \in 1..MaxStarters :
        starters[t].at \notin {"idle", "Game already started"}}

InFromRoom ==
    {t \in 1..MaxStarters : starters[t].at \in {"from_room", "items", "Game"}}

\* C39: a start_game that fails because the Game cannot be constructed
\* leaves the state of the room "waiting"; the room is never in state
\* "playing" without a game session once start_game has returned or raised.
C39_FailedStartLeavesWaiting ==
    /\ \A t \in 1..MaxStarters :
          starters[t].at \in {"ValueError", "TypeError"} =>
             room_state = "waiting"
    /\ (room_state = "playing" /\ InFromRoom = {}) => session # <<>>

-----------------------------------------------------------------------------
(* What the web layer sends to a player: the state snapshot that           *)
(* WebPlayer._build_state_snapshot builds for the player and for the       *)
(* waiting players, the line that Player.perform_turn prints and that      *)
(* PrintInterceptor forwards to every event bus, and the card_reveal       *)
(* request of WebPlayer.tell_player_card_value.  Each is written as a      *)
(* function of the card values val, so that two assignments of values can  *)
(* be compared.                                                            *)

\* CardView.value None, and the "X" of Card.__str__
NoValue == -1

\* showing every card its owner has seen
CanSeeCardKnown(c) == c \in publicly_visible \cup known_to_owner

CanSeeCard(c) == c \in publicly_visible

CardStr(c, val) == IF c \in publicly_visible THEN val[c] ELSE NoValue

BuildStateSnapshot(q, val) ==
    [players |->
        [k \in DOMAIN players |->
            [name |-> players[k],
             is_current_player |-> players[k] = q,
             cards |-> [i \in DOMAIN hand[players[k]] |->
                          LET card == hand[players[k]][i]
                          IN  [value |-> IF CanSeeCard(card) THEN val[card]
                                         ELSE NoValue,
                               is_known |-> CanSeeCard(card),
                               is_publicly_visible |->
                                   card \in publicly_visible]],
             called_kabo |-> called_kabo[players[k]]]],
     discard_top_value |-> IF discard_pile = <<>> THEN NoValue
                           ELSE val[Top(discard_pile)],
     deck_cards_left |-> Len(main_deck),
     kabo_called |-> kabo_called]

\* the line printed at the start of the turn of player p
TurnLine(p, val) ==
    [name |-> p,
     hand |-> [i \in DOMAIN hand[p] |-> CardStr(hand[p][i], val)],
     top |-> IF discard_pile = <<>> THEN NoValue ELSE val[Top(discard_pile)]]

\* the card_reveal request that the player who has just spied receives
CardReveal(q, val) ==
    IF last.kind = "spy" /\ last.actor = q /\ err = "none"
    THEN val[hand[last.opp][last.j + 1]]
    ELSE NoValue

EventsFor(q, val) ==
    [state_update |-> BuildStateSnapshot(q, val),
     log |-> [k \in DOMAIN players |-> TurnLine(players[k], val)],
     card_reveal |-> CardReveal(q, val)]

\* the cards in the hands of the other players that are neither face up
\* nor spied on by q
HiddenFrom(q) ==
    {c \in UNION {Range(hand[p]) : p \in Range(players) \ {q}} :
        c \notin publicly_visible /\ q \notin known_to_other_players[c]}

\* the card values with every card of the set hidden given the value w
Revalued(hidden, w) ==
    [c \in DOMAIN value |-> IF c \in hidden THEN w ELSE value[c]]

\* C40: during PEEKING and PLAYING no event delivered to a player carries
\* the value of a card in another player's hand unless the card is
\* publicly visible or the receiving player has spied on it, and giving
\* such hidden cards any other value changes no event for that player.
C40_NoLeak ==
    pc \in {"PEEKING", "PLAYING"} =>
       \A q \in Range(players) :
          LET ev == EventsFor(q, value)
              hidden == HiddenFrom(q)
          IN  /\ \A k \in DOMAIN players :
                    players[k] # q =>
                       \A i \in DOMAIN hand[players[k]] :
                          (\/ ev.state_update.players[k].cards[i].value
                                 # NoValue
                           \/ ev.log[k].hand[i] # NoValue)
                             => hand[players[k]][i] \notin hidden
              /\ ev.card_reveal # NoValue =>
                    hand[last.opp][last.j + 1] \notin hidden
              /\ \A w \in DOMAIN CARD_AMOUNTS :
                    EventsFor(q, Revalued(hidden, w)) = ev

\* a snapshot for a player that shows the value of a face-up card of an
\* opponent while the same opponent holds a card that its owner has seen
\* and that stays hidden
C40_Witness ==
    /\ pc = "PLAYING"
    /\ err = "none"
    /\ \E q \in Range(players) :
          \E k \in DOMAIN players :
             /\ players[k] # q
             /\ \E i \in DOMAIN hand[players[k]] :
                   BuildStateSnapshot(q, value).players[k].cards[i].value
                      # NoValue
             /\ \E i \in DOMAIN hand[players[k]] :
                   /\ hand[players[k]][i] \in HiddenFrom(q) \cap known_to_owner
                   /\ BuildStateSnapshot(q, value).players[k].cards[i].value
                         = NoValue

====
